---- MODULE Spec2Model ----
(***************************************************************************)
(* State detection, recording, conversion and snapshot capture of the      *)
(* AI-State-Analyzer tool chain:                                           *)
(*   - the in-page hybrid detector generated by panel_generator.py         *)
(*     (findVariable, getCurrentState, updateStateHighlight);              *)
(*   - the host-side recorder of playwright_recorder/record_session.py     *)
(*     (record, _check_stage_change, _detect_current_state,                *)
(*     _capture_snapshot, _save_snapshots) and its injected page script;   *)
(*   - the converter of playwright_recorder/convert_to_script.py.          *)
(*                                                                         *)
(* Page values are integers (a JavaScript boolean is 0 or 1, an array is   *)
(* its length); a name that is not bound is the record Absent.  Times are  *)
(* integer milliseconds.                                                   *)
(***************************************************************************)
EXTENDS Integers, Sequences, FiniteSets, TLC

(***************************************************************************)
(* Bounds of the model.                                                    *)
(***************************************************************************)
\* number of state definitions of a schema
SchemaLen == 3
\* number of poll intervals a recording may last
MaxPolls == 2
\* number of interaction events the page may buffer
MaxEvents == 2
\* number of events of a recording given to the converter
MaxRecLen == 3
\* number of scroll and mousemove events the page dispatches
MaxRaw == 4
\* number of clock steps the page is observed for
MaxQuanta == 22
\* number of characters of a string value and of a markup fragment
MaxStrLen == 2
\* number of times a snapshot is restored into one page
MaxRestores == 2
MaxReplayLen == 2
MaxReturned == 2
MaxSeconds == 1

(***************************************************************************)
(* Values and the page context.                                            *)
(***************************************************************************)
Names == {"stage", "isHellMode", "notificationCount", "urgentTimers"}

Absent == [ok |-> FALSE, v |-> 0]

Val(n) == [ok |-> TRUE, v |-> n]

\* values the page's script may give to each of its variables
StageValues == {0, 4}
WinChoices(name) ==
    CASE name = "stage" -> {Absent} \cup {Val(n) : n \in StageValues}
      [] name = "isHellMode" -> {Absent, Val(1)}
      [] name = "notificationCount" -> {Absent, Val(150)}
      [] OTHER -> {Absent, Val(1)}

\* properties an object one level below the global scope may carry
NestedChoices(name) ==
    IF name = "stage" THEN {Absent, Val(1)} ELSE {Absent}

OverlayStates == {"missing", "none", "flex"}

(***************************************************************************)
(* The state schema: an ordered list of state definitions.  A detection    *)
(* condition is a conjunction (&&) of atoms over page variables; the four  *)
(* lists of dom_detection hold selectors and selector/argument pairs.      *)
(***************************************************************************)
Atom(op, var, k) == [op |-> op, var |-> var, k |-> k]

NoDom == [present |-> FALSE, visible_elements |-> <<>>, hidden_elements |-> <<>>,
          has_class |-> <<>>, text_content |-> <<>>]

Dom(vis, hid, cls, txt) ==
    [present |-> TRUE, visible_elements |-> vis, hidden_elements |-> hid,
     has_class |-> cls, text_content |-> txt]

StateDef(id, cond, dd) == [id |-> id, detection_condition |-> cond, dom_detection |-> dd]

\* the state definitions schemas are built from
StatePool ==
    { StateDef(0, <<Atom("eq", "stage", 0)>>,
               Dom(<<>>, <<"#floodOverlay">>, <<>>, <<>>)),
      StateDef(1, <<Atom("ge", "stage", 1)>>, NoDom),
      StateDef(2, <<Atom("len", "urgentTimers", 0)>>,
               Dom(<<>>, <<>>, <<[selector |-> "body", class |-> "hell"]>>, <<>>)),
      StateDef(3, <<>>, Dom(<<>>, <<>>, <<>>, <<>>)),
      StateDef(4, <<Atom("eq", "stage", 4), Atom("truthy", "isHellMode", 0)>>,
               Dom(<<"#floodOverlay[">>, <<>>, <<>>, <<>>)),
      StateDef(5, <<Atom("ge", "notificationCount", 150)>>,
               Dom(<<"#floodOverlay">>, <<>>, <<>>,
                   <<[selector |-> "#floodOverlay", contains |-> "FLOOD"]>>)) }

Injective(s) == \A i, j \in DOMAIN s : i # j => s[i].id # s[j].id

Schemas == { s \in [1..SchemaLen -> StatePool] : Injective(s) }

SchemaIds(s) == { s[i].id : i \in DOMAIN s }

VARIABLES
    schema,               \* the state schema in use (states_schema.json)
    win,                  \* properties of the page's global scope
    nested,               \* properties of an object one level below it
    dom,                  \* the page's markup that the DOM checks look at
    currentTrackedState,  \* panel: var currentTrackedState
    prevTracked,          \* currentTrackedState before the last step
    lastOp,               \* the operation that made the last step
    STATES_SCHEMA_loaded, \* recorder: states_schema.json was found and loaded
    capture_snapshots,    \* recorder: self.capture_snapshots (and the config is there)
    pc,                   \* recorder: position in SessionRecorder.record
    pageAlive,            \* FALSE once the page or browser is gone
    recordedEvents,       \* page: window.recordedEvents
    shouldStopRecording,  \* page: window.shouldStopRecording
    events,               \* recorder: self.recording['events']
    last_stage,           \* recorder: self.last_stage
    snapshots,            \* recorder: self.snapshots, state id -> snapshot
    now,                  \* poll intervals elapsed since start_time
    hostRun,              \* the run of _check_stage_change made by the last step
    lastRead,             \* the events returned by the last read that succeeded
    recording,            \* converter: recording['events'] as loaded
    cvPos,                \* converter: index of the event the loop is at
    actions,              \* converter: actions
    last_time,            \* converter: last_time, in milliseconds
    script,               \* converter: the script written to the output file
    clock,                \* page: Date.now() - startTime, in milliseconds
    timers,               \* page: the timers set and neither run nor cleared
    nextTimer,            \* page: the id that the next setTimeout returns
    scrollTimeout,        \* page: let scrollTimeout, 0 while undefined
    mouseMoveTimeout,     \* page: let mouseMoveTimeout, 0 while undefined
    scrollY,              \* page: window.scrollY
    raw,                  \* the scroll and mousemove events dispatched so far
    observed,             \* the snapshots captured so far, in the order of capture
    stage_files,          \* snapshots/<session>/stage_<id>.json, state id -> content
    metadata,             \* snapshots/<session>/metadata.json
    testPc,               \* test_stage: position in test_stage
    stage_number,         \* test_stage: the stage asked for
    test_snapshot,        \* test_stage: the snapshot that load_snapshot returned
    live,                 \* test page: its variables, as typed values
    contentArea,          \* test page: the content container and its markup
    counter,              \* test page: the counter element and its text
    browser,              \* test_stage: a browser has been launched
    error,                \* test_stage: the exception raised, "none" if none
    restores,             \* the number of times restore_state was applied
    afterFirst,           \* the page as the first restore_state left it
    replayPc,             \* replay: position in the replay loop
    replayer,             \* replay: the program that replays
    replayInput,          \* replay: the kind of file it was given
    speed,                \* replay: the speed argument
    rpos,                 \* replay: index of the event or action the loop is at
    elapsed,              \* replay: time.time() - start_time, in milliseconds
    executed,             \* replay: the executions attempted so far
    reported,             \* replay: the indexes whose error was printed
    replayError,          \* replay: the exception that ended it, "none" if none
    handles,              \* replayed page: the handles of its pending timers and intervals
    paused,               \* replay: the calls of _pause_app made so far
    states_data,          \* panel pipeline: the schema that the analysis returned
    schemaPc,             \* panel pipeline: position in generate_state_panel.py
    schemaError,          \* panel pipeline: the exception raised, "none" if none
    wall,                 \* datetime.now(), in whole seconds
    session_id,           \* recorder -> the second its session_id was made from
    session_pc,           \* recorder -> position in its run
    session_snapshots,    \* recorder -> its self.snapshots
    snapshot_dirs         \* snapshots/<session_id>/, session_id -> content

detectVars == <<schema, win, nested, dom, currentTrackedState, prevTracked, lastOp>>

recVars == <<STATES_SCHEMA_loaded, capture_snapshots, pc, pageAlive, recordedEvents, shouldStopRecording, events, last_stage,
             snapshots, now, hostRun, lastRead, observed>>

vars == <<schema, win, nested, dom, currentTrackedState, prevTracked, lastOp,
          STATES_SCHEMA_loaded, capture_snapshots, pc, pageAlive, recordedEvents,
          shouldStopRecording, events, last_stage, snapshots, now, hostRun, lastRead,
          recording, cvPos, actions, last_time, script,
          clock, timers, nextTimer, scrollTimeout, mouseMoveTimeout, scrollY, raw,
          observed, stage_files, metadata,
          testPc, stage_number, test_snapshot, live, contentArea, counter, browser, error,
          restores, afterFirst,
          replayPc, replayer, replayInput, speed, rpos, elapsed, executed, reported,
          replayError, handles, paused,
          states_data, schemaPc, schemaError,
          wall, session_id, session_pc, session_snapshots, snapshot_dirs>>

stageVars == <<testPc, stage_number, test_snapshot, live, contentArea, counter, browser, error,
               restores, afterFirst>>

replayVars == <<replayPc, replayer, replayInput, speed, rpos, elapsed, executed, reported,
                replayError, handles, paused>>

schemaVars == <<states_data, schemaPc, schemaError>>

sessionVars == <<wall, session_id, session_pc, session_snapshots, snapshot_dirs>>

\* the state of the tools that run before and after a recording
toolVars == <<stageVars, replayVars, schemaVars, sessionVars>>

\* the state of the panel, of the recorder, of the converter and of the page
programVars == <<schema, win, nested, dom, currentTrackedState, prevTracked,
                 STATES_SCHEMA_loaded, capture_snapshots, pc, pageAlive, recordedEvents,
                 shouldStopRecording, events, last_stage, snapshots, now, hostRun, lastRead,
                 observed, recording, cvPos, actions, last_time, script,
                 clock, timers, nextTimer, scrollTimeout, mouseMoveTimeout, scrollY, raw,
                 stage_files, metadata>>

fileVars == <<stage_files, metadata>>

convVars == <<recording, cvPos, actions, last_time, script>>

pageVars == <<clock, timers, nextTimer, scrollTimeout, mouseMoveTimeout, scrollY, raw>>

(***************************************************************************)
(* findVariable: the global scope first, then one level into the objects   *)
(* reachable from it.                                                      *)
(***************************************************************************)
\* a lookup that searches the objects before the global scope
findVariable_nestedFirst(w, nst, varName) ==
    IF nst[varName].ok THEN nst[varName]
    ELSE IF w[varName].ok THEN w[varName]
    ELSE Absent

findVariable(w, nst, varName) ==
    IF w[varName].ok THEN w[varName]
    ELSE IF nst[varName].ok THEN nst[varName]
    ELSE Absent

(***************************************************************************)
(* Evaluation of one atom of a detection condition on the values that      *)
(* findVariable returned, with JavaScript's treatment of undefined:        *)
(* undefined === k and undefined >= k are false, undefined !== k is true,  *)
(* undefined is falsy (so !undefined is true), and a property read on      *)
(* undefined throws.                                                       *)
(***************************************************************************)
EvalAtom(a, x) ==
    CASE a.op = "eq" -> IF x.ok /\ x.v = a.k THEN "true" ELSE "false"
      [] a.op = "ne" -> IF x.ok /\ x.v = a.k THEN "false" ELSE "true"
      [] a.op = "ge" -> IF x.ok /\ x.v >= a.k THEN "true" ELSE "false"
      [] a.op = "truthy" -> IF x.ok /\ x.v # 0 THEN "true" ELSE "false"
      [] a.op = "not" -> IF x.ok /\ x.v # 0 THEN "false" ELSE "true"
      [] a.op = "len" -> IF ~x.ok THEN "raise"
                         ELSE IF x.v > a.k THEN "true" ELSE "false"
      [] OTHER -> "raise"

RECURSIVE EvalCondition(_, _, _, _)
EvalCondition(cond, i, w, nst) ==
    IF i > Len(cond) THEN "true"
    ELSE LET r == EvalAtom(cond[i], findVariable(w, nst, cond[i].var))
         IN  IF r = "true" THEN EvalCondition(cond, i + 1, w, nst) ELSE r

\* the variable try block of one state: "if (condition) return id" is only
\* generated for a non-empty condition
VariableDetect(st, w, nst) ==
    IF st.detection_condition = <<>> THEN "false"
    ELSE EvalCondition(st.detection_condition, 1, w, nst)

(***************************************************************************)
(* The DOM helper functions.  querySelector throws on a selector that is   *)
(* not valid CSS; an element that does not exist counts as hidden.         *)
(***************************************************************************)
ValidSelectors == {"#floodOverlay", "body"}

checkVisible(d, selector) ==
    IF selector \notin ValidSelectors THEN "raise"
    ELSE IF selector = "#floodOverlay" THEN (IF d.overlay = "flex" THEN "true" ELSE "false")
    ELSE "true"

checkHidden(d, selector) ==
    IF selector \notin ValidSelectors THEN "raise"
    ELSE IF selector = "#floodOverlay" THEN (IF d.overlay = "flex" THEN "false" ELSE "true")
    ELSE "false"

checkClass(d, selector, className) ==
    IF selector \notin ValidSelectors THEN "raise"
    ELSE IF selector = "body" /\ className = "hell" /\ d.hell THEN "true" ELSE "false"

checkText(d, selector, text) ==
    IF selector \notin ValidSelectors THEN "raise"
    ELSE IF selector = "#floodOverlay" /\ text = "FLOOD" /\ d.overlay # "missing"
         THEN "true" ELSE "false"

\* the list of generated checks, in the order the generator appends them
DomChecks(dd, d) ==
    [i \in 1..Len(dd.visible_elements) |-> checkVisible(d, dd.visible_elements[i])]
    \o [i \in 1..Len(dd.hidden_elements) |-> checkHidden(d, dd.hidden_elements[i])]
    \o [i \in 1..Len(dd.has_class) |->
            checkClass(d, dd.has_class[i].selector, dd.has_class[i].class)]
    \o [i \in 1..Len(dd.text_content) |->
            checkText(d, dd.text_content[i].selector, dd.text_content[i].contains)]

RECURSIVE EvalChecks(_, _)
EvalChecks(checks, i) ==
    IF i > Len(checks) THEN "true"
    ELSE IF checks[i] = "true" THEN EvalChecks(checks, i + 1) ELSE checks[i]

\* the DOM try block of one state: "if (checks) return id" is only generated
\* when dom_detection is non-empty and yields at least one check
DomDetect(st, d) ==
    IF ~st.dom_detection.present THEN "false"
    ELSE LET checks == DomChecks(st.dom_detection, d)
         IN  IF checks = <<>> THEN "false" ELSE EvalChecks(checks, 1)

(***************************************************************************)
(* getCurrentState: one pair of try blocks per state, in schema order,     *)
(* then the fallback "return currentTrackedState".                         *)
(***************************************************************************)
RECURSIVE DetectFrom(_, _, _, _, _, _)
DetectFrom(sch, i, w, nst, d, tracked) ==
    IF i > Len(sch) THEN tracked
    ELSE IF VariableDetect(sch[i], w, nst) = "true" THEN sch[i].id
    ELSE IF DomDetect(sch[i], d) = "true" THEN sch[i].id
    ELSE DetectFrom(sch, i + 1, w, nst, d, tracked)

\* a fallback that returns the initial state instead of the tracked one
getCurrentState_resets(sch, w, nst, d, tracked) == DetectFrom(sch, 1, w, nst, d, 0)

\* detection blocks generated in reverse schema order
RECURSIVE DetectBack(_, _, _, _, _, _)
DetectBack(sch, i, w, nst, d, tracked) ==
    IF i < 1 THEN tracked
    ELSE IF VariableDetect(sch[i], w, nst) = "true" THEN sch[i].id
    ELSE IF DomDetect(sch[i], d) = "true" THEN sch[i].id
    ELSE DetectBack(sch, i - 1, w, nst, d, tracked)

getCurrentState_lastWins(sch, w, nst, d, tracked) ==
    DetectBack(sch, Len(sch), w, nst, d, tracked)

getCurrentState(sch, w, nst, d, tracked) == DetectFrom(sch, 1, w, nst, d, tracked)

(***************************************************************************)
(* The recorder's host-side detector and snapshot capture.                 *)
(***************************************************************************)
\* page.evaluate('typeof <name> !== "undefined" ? <name> : <default>')
EvaluateOr(w, name, default) == IF w[name].ok THEN w[name].v ELSE default

\* the test that _detect_current_state makes for one state of the schema
HostStateMatches(state_id, w, d) ==
    IF state_id = 5
    THEN EvaluateOr(w, "notificationCount", 0) >= 150 /\ d.overlay = "flex"
    ELSE IF state_id = 4
    THEN EvaluateOr(w, "stage", -1) = 4 /\ EvaluateOr(w, "isHellMode", 0) # 0
    ELSE EvaluateOr(w, "stage", -1) = state_id

RECURSIVE HostDetectFrom(_, _, _, _)
HostDetectFrom(sch, i, w, d) ==
    IF i > Len(sch) THEN -1
    ELSE IF HostStateMatches(sch[i].id, w, d) THEN sch[i].id
    ELSE HostDetectFrom(sch, i + 1, w, d)

\* on a page that is gone every evaluate raises, every state is skipped
detect_current_state(sch, loaded, w, d, alive) ==
    IF ~loaded THEN -1
    ELSE IF ~alive THEN -1
    ELSE HostDetectFrom(sch, 1, w, d)

\* INSTAGRAM_STATE['variables'], the names that the model's page has
ConfigVariables == <<"stage", "notificationCount", "isHellMode", "urgentTimers">>

EmptyMap == [n \in {} |-> 0]

NoMarkup == [overlay |-> "missing", hell |-> FALSE]

\* _capture_snapshot: every variable that resolves, the markup of the content
\* container, the time since start; on a page that is gone every evaluate
\* raises and only the timestamp is left
capture_snapshot(w, d, alive, t) ==
    LET resolved == { ConfigVariables[i] : i \in { j \in DOMAIN ConfigVariables :
                                                     alive /\ w[ConfigVariables[j]].ok } }
    IN  [variables |-> [n \in resolved |-> w[n].v],
         hasDom |-> alive,
         dom |-> IF alive THEN d ELSE NoMarkup,
         timestamp |-> t]

NoRun == [ran |-> FALSE, before |-> -1, detected |-> -1, captured |-> FALSE, failed |-> FALSE]

\* the state that _check_stage_change compares with last_stage; "raise" when
\* the evaluate of the schema-less fallback fails
CurrentStateOf(sch, loaded, w, d, alive) ==
    IF loaded THEN [ok |-> TRUE, v |-> detect_current_state(sch, loaded, w, d, alive)]
    ELSE IF alive THEN [ok |-> TRUE, v |-> EvaluateOr(w, "stage", -1)]
    ELSE Absent

\* a change to no state is a change as well
StageChanged_anyChange(current_state, last) == current_state # last

\* if current_state != self.last_stage and current_state >= 0
StageChanged(current_state, last) == current_state # last /\ current_state >= 0

\* a snapshot already held for the id is kept
Store_keepsFirst(snaps, id, snap) ==
    [i \in (DOMAIN snaps) \cup {id} |-> IF i \in DOMAIN snaps THEN snaps[i] ELSE snap]

\* self.snapshots[current_state] = snapshot
Store(snaps, id, snap) ==
    [i \in (DOMAIN snaps) \cup {id} |-> IF i = id THEN snap ELSE snaps[i]]

(***************************************************************************)
(* The panel's tracker and the page it runs in.                            *)
(***************************************************************************)
InitPage ==
    /\ win = [n \in Names |-> Absent]
    /\ nested = [n \in Names |-> Absent]
    /\ dom = [overlay |-> "none", hell |-> FALSE]

\* no metadata.json in the session's snapshot directory
NoMetadata == [written |-> FALSE, stages_captured |-> 0, stage_numbers |-> <<>>]

\* SessionRecorder.__init__
InitLoop ==
    /\ pc = "idle"
    /\ pageAlive = TRUE
    /\ recordedEvents = <<>>
    /\ shouldStopRecording = FALSE
    /\ events = <<>>
    /\ last_stage = -1
    /\ snapshots = EmptyMap
    /\ now = 0
    /\ hostRun = NoRun
    /\ lastRead = <<>>
    /\ observed = <<>>
    /\ stage_files = EmptyMap
    /\ metadata = NoMetadata

\* a recorder that has been constructed and not started
InitRecorder ==
    /\ STATES_SCHEMA_loaded = TRUE
    /\ capture_snapshots = FALSE
    /\ InitLoop

\* the output file before the converter has written it
NoScript == [written |-> FALSE, total_actions |-> 0, actions |-> <<>>]

\* no conversion under way
InitNoConversion ==
    /\ recording = <<>>
    /\ cvPos = 1
    /\ actions = <<>>
    /\ last_time = 0
    /\ script = NoScript

\* a page in which the recording script has just run
InitPageScript ==
    /\ clock = 0
    /\ timers = {}
    /\ nextTimer = 1
    /\ scrollTimeout = 0
    /\ mouseMoveTimeout = 0
    /\ scrollY = 0
    /\ raw = <<>>

(***************************************************************************)
(* Typed values: what a page variable holds and what a snapshot stores     *)
(* for it.  A string is a sequence of characters; an array is a sequence   *)
(* of one-character strings.                                               *)
(***************************************************************************)
Typed(t, n, s) == [t |-> t, n |-> n, s |-> s]

NoElement == [present |-> FALSE, html |-> <<>>]

\* the recorders that may run side by side
Recorders == {1, 2}

\* no stage test, no replay, no analysis and no second recorder under way
InitTools ==
    /\ testPc = "idle"
    /\ stage_number = -1
    /\ test_snapshot = EmptyMap
    /\ live = [n \in Names |-> Typed("undefined", 0, <<>>)]
    /\ contentArea = NoElement
    /\ counter = [present |-> FALSE, text |-> 0]
    /\ browser = FALSE
    /\ error = "none"
    /\ restores = 0
    /\ afterFirst = <<live, contentArea, counter>>
    /\ replayPc = "idle"
    /\ replayer = "none"
    /\ replayInput = "none"
    /\ speed = 1
    /\ rpos = 1
    /\ elapsed = 0
    /\ executed = <<>>
    /\ reported = <<>>
    /\ replayError = "none"
    /\ handles = {}
    /\ paused = <<>>
    /\ states_data = [metadata |-> FALSE, states |-> <<>>]
    /\ schemaPc = "idle"
    /\ schemaError = "none"
    /\ wall = 0
    /\ session_id = [r \in Recorders |-> -1]
    /\ session_pc = [r \in Recorders |-> "none"]
    /\ session_snapshots = [r \in Recorders |-> EmptyMap]
    /\ snapshot_dirs = EmptyMap

\* the programs of the repository before any of them has run
InitIdle ==
    /\ schema = <<>>
    /\ InitPage
    /\ currentTrackedState = 0
    /\ prevTracked = 0
    /\ lastOp = "init"
    /\ InitRecorder
    /\ InitNoConversion
    /\ InitPageScript
    /\ InitTools

InitDetect ==
    /\ schema \in Schemas
    /\ InitPage
    /\ currentTrackedState = 0
    /\ prevTracked = 0
    /\ lastOp = "init"
    /\ InitRecorder
    /\ InitNoConversion
    /\ InitPageScript
    /\ InitTools

\* the page's own script assigns one of its variables
PageSetVariable ==
    /\ \E n \in Names : \E x \in WinChoices(n) :
          /\ x # win[n]
          /\ win' = [win EXCEPT ![n] = x]
    /\ lastOp' = "page"
    /\ prevTracked' = currentTrackedState
    /\ UNCHANGED <<schema, nested, dom, currentTrackedState>>
    /\ UNCHANGED recVars
    /\ UNCHANGED convVars
    /\ UNCHANGED fileVars
    /\ UNCHANGED toolVars
    /\ UNCHANGED pageVars

\* the page's own script assigns a property of one of its objects
PageSetNested ==
    /\ \E n \in Names : \E x \in NestedChoices(n) :
          /\ x # nested[n]
          /\ nested' = [nested EXCEPT ![n] = x]
    /\ lastOp' = "page"
    /\ prevTracked' = currentTrackedState
    /\ UNCHANGED <<schema, win, dom, currentTrackedState>>
    /\ UNCHANGED recVars
    /\ UNCHANGED convVars
    /\ UNCHANGED fileVars
    /\ UNCHANGED toolVars
    /\ UNCHANGED pageVars

\* the page's own script changes its markup
PageSetDom ==
    /\ \E o \in OverlayStates, h \in BOOLEAN :
          /\ [overlay |-> o, hell |-> h] # dom
          /\ dom' = [overlay |-> o, hell |-> h]
    /\ lastOp' = "page"
    /\ prevTracked' = currentTrackedState
    /\ UNCHANGED <<schema, win, nested, currentTrackedState>>
    /\ UNCHANGED recVars
    /\ UNCHANGED convVars
    /\ UNCHANGED fileVars
    /\ UNCHANGED toolVars
    /\ UNCHANGED pageVars

updateStateHighlight ==
    LET newState == getCurrentState(schema, win, nested, dom, currentTrackedState)
    IN  /\ prevTracked' = currentTrackedState
        /\ currentTrackedState' =
              IF newState # currentTrackedState THEN newState ELSE currentTrackedState
        /\ lastOp' = "detect"
        /\ UNCHANGED <<schema, win, nested, dom>>
        /\ UNCHANGED recVars
        /\ UNCHANGED convVars
        /\ UNCHANGED fileVars
        /\ UNCHANGED toolVars
        /\ UNCHANGED pageVars

NextDetect ==
    \/ PageSetVariable
    \/ PageSetNested
    \/ PageSetDom
    \/ updateStateHighlight

SpecDetect == InitDetect /\ [][NextDetect]_vars

(***************************************************************************)
(* SessionRecorder.record: the poll loop, the page it records and the      *)
(* final collection of events.                                             *)
(***************************************************************************)
\* the schemas a recorded session is run with
RecPool == { st \in StatePool : st.id \in {0, 4, 5} }

RecSchemas == { s \in [1..Cardinality(RecPool) -> RecPool] : Injective(s) }

\* the variables the recorded page assigns while it is recorded, and the
\* values it gives them; the others keep the value they have at the start
RecNames == {"stage"}

RecChoices(name) ==
    IF name = "stage" THEN {Absent, Val(0), Val(4)} ELSE WinChoices(name)

InitRec ==
    /\ schema \in RecSchemas
    /\ win \in { w \in [Names -> {Absent, Val(1), Val(150)}] :
                    /\ w["stage"] = Absent
                    /\ w["urgentTimers"] = Absent
                    /\ w["isHellMode"] \in WinChoices("isHellMode")
                    /\ w["notificationCount"] \in WinChoices("notificationCount") }
    /\ nested = [n \in Names |-> Absent]
    /\ dom = [overlay |-> "none", hell |-> FALSE]
    /\ currentTrackedState = 0
    /\ prevTracked = 0
    /\ lastOp = "init"
    /\ STATES_SCHEMA_loaded \in BOOLEAN
    /\ capture_snapshots = TRUE
    /\ InitLoop
    /\ InitNoConversion
    /\ InitPageScript
    /\ InitTools

PageRuns == pageAlive /\ pc \in {"poll", "final"}

\* record() up to "self.start_time = time.time()"
StartRecording ==
    /\ pc = "idle"
    /\ pc' = "poll"
    /\ lastOp' = "host"
    /\ UNCHANGED <<schema, win, nested, dom, currentTrackedState, prevTracked>>
    /\ UNCHANGED <<STATES_SCHEMA_loaded, capture_snapshots, pageAlive, recordedEvents,
                   shouldStopRecording, events, last_stage, snapshots, now, hostRun>>
    /\ UNCHANGED <<lastRead, observed>>
    /\ UNCHANGED convVars
    /\ UNCHANGED fileVars
    /\ UNCHANGED toolVars
    /\ UNCHANGED pageVars

\* the recorded page assigns one of its variables
RecPageSetVariable ==
    /\ PageRuns
    /\ \E n \in RecNames : \E x \in RecChoices(n) :
          /\ x # win[n]
          /\ win' = [win EXCEPT ![n] = x]
    /\ lastOp' = "page"
    /\ hostRun' = NoRun
    /\ UNCHANGED <<schema, nested, dom, currentTrackedState, prevTracked>>
    /\ UNCHANGED <<STATES_SCHEMA_loaded, capture_snapshots, pc, pageAlive, recordedEvents,
                   shouldStopRecording, events, last_stage, snapshots, now>>
    /\ UNCHANGED <<lastRead, observed>>
    /\ UNCHANGED convVars
    /\ UNCHANGED fileVars
    /\ UNCHANGED toolVars
    /\ UNCHANGED pageVars

\* the recorded page shows or hides its overlay
RecPageSetDom ==
    /\ PageRuns
    /\ \E o \in {"none", "flex"} :
          /\ o # dom.overlay
          /\ dom' = [dom EXCEPT !.overlay = o]
    /\ lastOp' = "page"
    /\ hostRun' = NoRun
    /\ UNCHANGED <<schema, win, nested, currentTrackedState, prevTracked>>
    /\ UNCHANGED <<STATES_SCHEMA_loaded, capture_snapshots, pc, pageAlive, recordedEvents,
                   shouldStopRecording, events, last_stage, snapshots, now>>
    /\ UNCHANGED <<lastRead, observed>>
    /\ UNCHANGED convVars
    /\ UNCHANGED fileVars
    /\ UNCHANGED toolVars
    /\ UNCHANGED pageVars

\* a listener of the injected script pushes one entry
PageEvent ==
    /\ PageRuns
    /\ Len(recordedEvents) < MaxEvents
    /\ recordedEvents' = Append(recordedEvents,
                                [type |-> "click", seq |-> Len(recordedEvents) + 1])
    /\ lastOp' = "page"
    /\ hostRun' = NoRun
    /\ UNCHANGED <<schema, win, nested, dom, currentTrackedState, prevTracked>>
    /\ UNCHANGED <<STATES_SCHEMA_loaded, capture_snapshots, pc, pageAlive,
                   shouldStopRecording, events, last_stage, snapshots, now>>
    /\ UNCHANGED <<lastRead, observed>>
    /\ UNCHANGED convVars
    /\ UNCHANGED fileVars
    /\ UNCHANGED toolVars
    /\ UNCHANGED pageVars

\* the keydown listener sees Ctrl+S
PressStop ==
    /\ PageRuns
    /\ ~shouldStopRecording
    /\ shouldStopRecording' = TRUE
    /\ lastOp' = "page"
    /\ hostRun' = NoRun
    /\ UNCHANGED <<schema, win, nested, dom, currentTrackedState, prevTracked>>
    /\ UNCHANGED <<STATES_SCHEMA_loaded, capture_snapshots, pc, pageAlive,
                   recordedEvents, events, last_stage, snapshots, now>>
    /\ UNCHANGED <<lastRead, observed>>
    /\ UNCHANGED convVars
    /\ UNCHANGED fileVars
    /\ UNCHANGED toolVars
    /\ UNCHANGED pageVars

\* the user closes the page or the browser
PageClose ==
    /\ PageRuns
    /\ pageAlive' = FALSE
    /\ lastOp' = "page"
    /\ hostRun' = NoRun
    /\ UNCHANGED <<schema, win, nested, dom, currentTrackedState, prevTracked>>
    /\ UNCHANGED <<STATES_SCHEMA_loaded, capture_snapshots, pc, recordedEvents,
                   shouldStopRecording, events, last_stage, snapshots, now>>
    /\ UNCHANGED <<lastRead, observed>>
    /\ UNCHANGED convVars
    /\ UNCHANGED fileVars
    /\ UNCHANGED toolVars
    /\ UNCHANGED pageVars

\* _check_stage_change on a page that answers the detection (answers) and
\* the capture (stays), or that goes away before one of them
check_stage_change(answers, stays) ==
    IF ~capture_snapshots
    THEN /\ hostRun' = NoRun
         /\ UNCHANGED <<last_stage, snapshots, observed>>
    ELSE LET cur == CurrentStateOf(schema, STATES_SCHEMA_loaded, win, dom, answers)
             snapshot == capture_snapshot(win, dom, stays, now)
         IN  IF cur.ok /\ StageChanged(cur.v, last_stage)
             THEN /\ snapshots' = Store(snapshots, cur.v, snapshot)
                  /\ observed' = Append(observed, [id |-> cur.v, snapshot |-> snapshot])
                  /\ last_stage' = cur.v
                  /\ hostRun' = [ran |-> TRUE, before |-> last_stage,
                                 detected |-> cur.v, captured |-> TRUE,
                                 failed |-> ~answers]
             ELSE /\ hostRun' = [ran |-> TRUE, before |-> last_stage,
                                 detected |-> IF cur.ok THEN cur.v ELSE -1,
                                 captured |-> FALSE, failed |-> ~answers]
                  /\ UNCHANGED <<last_stage, snapshots, observed>>

\* one turn of the poll loop: "while not page.is_closed()", the read of
\* window.recordedEvents, _check_stage_change, the read of
\* window.shouldStopRecording and time.sleep(0.5), during which the page's
\* clock advances as the host's does.  The page may go away
\* during the turn, after the events were read: before the detection or
\* between the detection and the capture.
PollTick ==
    /\ pc = "poll"
    /\ IF ~pageAlive
       THEN /\ pc' = "final"
            /\ hostRun' = NoRun
            /\ UNCHANGED <<events, lastRead, last_stage, snapshots, now, pageAlive,
                           observed, clock>>
       ELSE /\ events' = recordedEvents
            /\ lastRead' = recordedEvents
            /\ \E answers \in BOOLEAN, stays \in BOOLEAN :
                  /\ ~answers => ~stays
                  /\ pageAlive' = stays
                  /\ check_stage_change(answers, stays)
                  /\ IF ~stays \/ shouldStopRecording
                     THEN /\ pc' = "final"
                          /\ now' = now
                          /\ clock' = clock
                     ELSE /\ now < MaxPolls
                          /\ now' = now + 1
                          /\ clock' = clock + 500
                          /\ pc' = "poll"
    /\ lastOp' = "tick"
    /\ UNCHANGED <<schema, win, nested, dom, currentTrackedState, prevTracked>>
    /\ UNCHANGED <<STATES_SCHEMA_loaded, capture_snapshots, recordedEvents,
                   shouldStopRecording>>
    /\ UNCHANGED convVars
    /\ UNCHANGED fileVars
    /\ UNCHANGED toolVars
    /\ UNCHANGED <<timers, nextTimer, scrollTimeout, mouseMoveTimeout, scrollY, raw>>

\* KeyboardInterrupt in the poll loop
Interrupt ==
    /\ pc = "poll"
    /\ pc' = "final"
    /\ lastOp' = "host"
    /\ hostRun' = NoRun
    /\ UNCHANGED <<schema, win, nested, dom, currentTrackedState, prevTracked>>
    /\ UNCHANGED <<STATES_SCHEMA_loaded, capture_snapshots, pageAlive, recordedEvents,
                   shouldStopRecording, events, last_stage, snapshots, now>>
    /\ UNCHANGED <<lastRead, observed>>
    /\ UNCHANGED convVars
    /\ UNCHANGED fileVars
    /\ UNCHANGED toolVars
    /\ UNCHANGED pageVars

\* a final read that fails leaves the recording without events
final_events_reset(alive, buffer, held) == IF alive THEN buffer ELSE <<>>

\* "Final collection of events": the buffer read from the page, or what
\* self.recording['events'] holds when the evaluate raises
final_events(alive, buffer, held) == IF alive THEN buffer ELSE held

\* the final collection of events and browser.close()
FinalRead ==
    /\ pc = "final"
    /\ events' = final_events(pageAlive, recordedEvents, events)
    /\ lastRead' = IF pageAlive THEN recordedEvents ELSE lastRead
    /\ pageAlive' = FALSE
    /\ pc' = "done"
    /\ lastOp' = IF pageAlive THEN "final" ELSE "finalfailed"
    /\ hostRun' = NoRun
    /\ UNCHANGED <<schema, win, nested, dom, currentTrackedState, prevTracked>>
    /\ UNCHANGED <<STATES_SCHEMA_loaded, capture_snapshots, recordedEvents,
                   shouldStopRecording, last_stage, snapshots, now, observed>>
    /\ UNCHANGED convVars
    /\ UNCHANGED fileVars
    /\ UNCHANGED toolVars
    /\ UNCHANGED pageVars

RECURSIVE sorted(_)
sorted(S) ==
    IF S = {} THEN <<>>
    ELSE LET least == CHOOSE x \in S : \A y \in S : x <= y
         IN  <<least>> \o sorted(S \ {least})

\* main, after record(): _save_snapshots when --capture-snapshots was given
save_snapshots ==
    /\ pc = "done"
    /\ pc' = "saved"
    /\ IF capture_snapshots /\ DOMAIN snapshots # {}
       THEN /\ stage_files' =
                  [id \in { i \in DOMAIN snapshots : i >= 0 } |-> snapshots[id]]
            /\ metadata' =
                  [written |-> TRUE,
                   stages_captured |-> Cardinality(DOMAIN snapshots),
                   stage_numbers |-> sorted({ i \in DOMAIN snapshots : i >= 0 })]
       ELSE UNCHANGED <<stage_files, metadata>>
    /\ lastOp' = "host"
    /\ hostRun' = NoRun
    /\ UNCHANGED <<schema, win, nested, dom, currentTrackedState, prevTracked>>
    /\ UNCHANGED <<STATES_SCHEMA_loaded, capture_snapshots, pageAlive, recordedEvents,
                   shouldStopRecording, events, last_stage, snapshots, now>>
    /\ UNCHANGED <<lastRead, observed>>
    /\ UNCHANGED convVars
    /\ UNCHANGED pageVars
    /\ UNCHANGED toolVars

NextRec ==
    \/ StartRecording
    \/ RecPageSetVariable
    \/ RecPageSetDom
    \/ PressStop
    \/ PageClose
    \/ PollTick
    \/ Interrupt
    \/ FinalRead
    \/ save_snapshots

SpecRec == InitRec /\ [][NextRec]_vars

(***************************************************************************)
(* A recording of a page that fires interaction events while its own       *)
(* variables keep the values they have at the start.                       *)
(***************************************************************************)
InitEvents ==
    /\ schema \in RecSchemas
    /\ win \in { w \in [Names -> {Absent, Val(0), Val(1), Val(150)}] :
                    /\ w["stage"] \in {Absent, Val(0)}
                    /\ w["urgentTimers"] = Absent
                    /\ w["isHellMode"] = Absent
                    /\ w["notificationCount"] \in WinChoices("notificationCount") }
    /\ nested = [n \in Names |-> Absent]
    /\ dom = [overlay |-> "flex", hell |-> FALSE]
    /\ currentTrackedState = 0
    /\ prevTracked = 0
    /\ lastOp = "init"
    /\ STATES_SCHEMA_loaded \in BOOLEAN
    /\ capture_snapshots \in BOOLEAN
    /\ InitLoop
    /\ InitNoConversion
    /\ InitPageScript
    /\ InitTools

NextEvents ==
    \/ StartRecording
    \/ PageEvent
    \/ PressStop
    \/ PageClose
    \/ PollTick
    \/ Interrupt
    \/ FinalRead
    \/ save_snapshots

SpecEvents == InitEvents /\ [][NextEvents]_vars

(***************************************************************************)
(* Properties of the detectors.                                            *)
(***************************************************************************)
\* the variables a detection condition refers to all resolve
AllResolve(cond) ==
    \A i \in DOMAIN cond : findVariable(win, nested, cond[i].var).ok

VarMatches(i) == VariableDetect(schema[i], win, nested) = "true"

DomMatches(i) == DomDetect(schema[i], dom) = "true"

Matches(i) == VarMatches(i) \/ DomMatches(i)

NoStateMatches == \A i \in DOMAIN schema : ~Matches(i)

ConclusivelyFalse(i) ==
    /\ schema[i].detection_condition # <<>>
    /\ AllResolve(schema[i].detection_condition)
    /\ VariableDetect(schema[i], win, nested) = "false"

HostChecked == lastOp = "tick" /\ hostRun.ran /\ STATES_SCHEMA_loaded

\* C1: the detector returns an id of the schema or the previous id it was
\* given, never another value: getCurrentState with currentTrackedState as
\* the previous id, _detect_current_state with last_stage as the previous id.
C1_ReturnsSchemaIdOrPrevious ==
    /\ lastOp = "detect" =>
          currentTrackedState \in SchemaIds(schema) \cup {prevTracked}
    /\ HostChecked =>
          hostRun.detected \in SchemaIds(schema) \cup {hostRun.before}

C4_DomOnlyWhenInconclusive ==
    lastOp = "detect" =>
        \A i \in DOMAIN schema :
            ( /\ ConclusivelyFalse(i)
              /\ DomMatches(i)
              /\ \A k \in 1..(i - 1) : ~Matches(k)
              /\ prevTracked # schema[i].id )
            => currentTrackedState # schema[i].id

(***************************************************************************)
(* convert_recording_to_script.  Timestamps and waits are in milliseconds. *)
(***************************************************************************)
\* the timestamps of the events of a recording
TimeGrid == {0, 50, 300, 400, 500}

\* raw events as the injected script writes them, without their timestamp;
\* the last one is a scroll entry of a recording that carries no scrollX
EventKinds ==
    { [type |-> "click", selector |-> "#like", x |-> 1, y |-> 1],
      [type |-> "click", selector |-> "#share", x |-> 2, y |-> 2],
      [type |-> "scroll", scrollX |-> 7, scrollY |-> 300],
      [type |-> "keypress", key |-> "a", code |-> "KeyA"],
      [type |-> "keypress", key |-> "Shift", code |-> "ShiftLeft"],
      [type |-> "mousemove", x |-> 3, y |-> 3],
      [type |-> "scroll", scrollY |-> 900] }

At(kind, t) ==
    [k \in (DOMAIN kind) \cup {"timestamp"} |-> IF k = "timestamp" THEN t ELSE kind[k]]

Recordings ==
    UNION { { r \in [1..n -> { At(k, t) : k \in EventKinds, t \in TimeGrid }] :
                \A i \in 1..(n - 1) : r[i].timestamp <= r[i + 1].timestamp }
            : n \in 0..MaxRecLen }

\* wait_time = timestamp - last_time if last_time > 0 else 0
wait_time(timestamp, last) == IF last > 0 THEN timestamp - last ELSE 0

\* pairs <<last_time, timestamp>> of the grid, one tenth of a second apart,
\* whose difference in binary floating point is above 0.1
AboveTenth == { <<300, 400>> }

\* pairs <<last_time, timestamp>> of the grid whose difference is half-way
\* between two tenths and that round() takes to the lower one
TiesDown == { <<50, 300>> }

\* a wait attached to every action that follows the previous one at all
Significant_anyGap(timestamp, last) == wait_time(timestamp, last) > 0

\* wait_time > 0.1
Significant(timestamp, last) ==
    \/ wait_time(timestamp, last) > 100
    \/ wait_time(timestamp, last) = 100 /\ <<last, timestamp>> \in AboveTenth

\* round(wait_time, 1)
round1(timestamp, last) ==
    LET w == wait_time(timestamp, last)
        low == (w \div 100) * 100
    IN  IF w - low < 50 THEN low
        ELSE IF w - low > 50 THEN low + 100
        ELSE IF <<last, timestamp>> \in TiesDown THEN low
        ELSE low + 100

ModifierKeys == {"Control", "Meta", "Shift", "Alt"}

\* the loop body also appends an action for a bare modifier key
Converts_withModifiers(event) == event.type \in {"click", "scroll", "keypress"}

\* the events for which the loop body reaches actions.append
Converts(event) ==
    /\ event.type # "mousemove"
    /\ \/ event.type = "click"
       \/ event.type = "scroll"
       \/ event.type = "keypress" /\ event.key \notin ModifierKeys

\* the action dictionary built for an event, before its wait
ActionOf(event) ==
    CASE event.type = "click" ->
            [type |-> "click", selector |-> event.selector, x |-> event.x, y |-> event.y]
      [] event.type = "scroll" ->
            [type |-> "scroll", scrollY |-> event.scrollY,
             scrollX |-> IF "scrollX" \in DOMAIN event THEN event.scrollX ELSE 0]
      [] OTHER -> [type |-> "keypress", key |-> event.key]

\* action['wait'] = ...
WithWait(action, w) ==
    [k \in (DOMAIN action) \cup {"wait"} |-> IF k = "wait" THEN w ELSE action[k]]

InitConv ==
    /\ schema = <<>>
    /\ InitPage
    /\ currentTrackedState = 0
    /\ prevTracked = 0
    /\ lastOp = "init"
    /\ InitRecorder
    /\ recording \in Recordings
    /\ cvPos = 1
    /\ actions = <<>>
    /\ last_time = 0
    /\ script = NoScript
    /\ InitPageScript
    /\ InitTools

\* one turn of "for event in events"
ConvertEvent ==
    /\ ~script.written
    /\ cvPos <= Len(recording)
    /\ LET event == recording[cvPos]
           timestamp == event.timestamp
       IN  IF Converts(event)
           THEN /\ actions' = Append(actions,
                                     IF Significant(timestamp, last_time)
                                     THEN WithWait(ActionOf(event),
                                                   round1(timestamp, last_time))
                                     ELSE ActionOf(event))
                /\ last_time' = timestamp
           ELSE UNCHANGED <<actions, last_time>>
    /\ cvPos' = cvPos + 1
    /\ lastOp' = "convert"
    /\ UNCHANGED <<schema, win, nested, dom, currentTrackedState, prevTracked>>
    /\ UNCHANGED recVars
    /\ UNCHANGED <<recording, script>>
    /\ UNCHANGED pageVars
    /\ UNCHANGED fileVars
    /\ UNCHANGED toolVars

\* "script = {...}" and json.dump(script, f)
WriteScript ==
    /\ ~script.written
    /\ cvPos > Len(recording)
    /\ script' = [written |-> TRUE, total_actions |-> Len(actions), actions |-> actions]
    /\ lastOp' = "write"
    /\ UNCHANGED <<schema, win, nested, dom, currentTrackedState, prevTracked>>
    /\ UNCHANGED recVars
    /\ UNCHANGED <<recording, cvPos, actions, last_time>>
    /\ UNCHANGED pageVars
    /\ UNCHANGED fileVars
    /\ UNCHANGED toolVars

NextConv ==
    \/ ConvertEvent
    \/ WriteScript

SpecConv == InitConv /\ [][NextConv]_vars

(***************************************************************************)
(* Properties of the converter.                                            *)
(***************************************************************************)
\* the click, scroll and non-modifier keypress events of a recording
IsRetainedEvent(event) ==
    \/ event.type \in {"click", "scroll"}
    \/ event.type = "keypress" /\ event.key \notin ModifierKeys

RECURSIVE RetainedFrom(_, _)
RetainedFrom(rec, i) ==
    IF i > Len(rec) THEN <<>>
    ELSE IF IsRetainedEvent(rec[i]) THEN <<rec[i]>> \o RetainedFrom(rec, i + 1)
    ELSE RetainedFrom(rec, i + 1)

Retained == RetainedFrom(recording, 1)

HasWait(action) == "wait" \in DOMAIN action

\* the time between the k-th retained event and the retained event before it
Gap(k) == Retained[k].timestamp - Retained[k - 1].timestamp

\* an action is the conversion of an event: same type, same payload
SameInteraction(action, event) ==
    /\ action.type = event.type
    /\ action.type = "click" =>
          action.selector = event.selector /\ action.x = event.x /\ action.y = event.y
    /\ action.type = "scroll" => action.scrollY = event.scrollY
    /\ action.type = "keypress" => action.key = event.key

\* C5: in the script written, the first action has no wait, and every later
\* action whose retained event follows the previous retained event by more
\* than a tenth of a second carries a wait equal to that difference (to the
\* tenth of a second a script keeps), also when the previous retained event
\* has timestamp 0; an action that follows by less carries none.
C5_WaitSincePreviousRetained ==
    (script.written /\ Len(script.actions) = Len(Retained)) =>
        \A k \in 1..Len(Retained) :
            LET a == script.actions[k]
            IN  /\ k = 1 => ~HasWait(a)
                /\ (k > 1 /\ Gap(k) > 100) =>
                      /\ HasWait(a)
                      /\ a.wait - Gap(k) \in -50..50
                /\ (k > 1 /\ Gap(k) < 100) => ~HasWait(a)

\* C6: the script written has no mousemove action and holds exactly the
\* click, scroll and non-modifier keypress events of the recording, in the
\* order of the recording.
C6_ExactlyRetainedInOrder ==
    script.written =>
        /\ \A k \in DOMAIN script.actions : script.actions[k].type # "mousemove"
        /\ Len(script.actions) = Len(Retained)
        /\ script.total_actions = Len(Retained)
        /\ \A k \in DOMAIN script.actions :
              SameInteraction(script.actions[k], Retained[k])

\* a script written from a recording with a mousemove, a bare modifier key
\* and two clicks on different targets
C6_Witness ==
    /\ script.written
    /\ Len(recording) >= 3
    /\ \E i \in DOMAIN recording : recording[i].type = "mousemove"
    /\ Len(script.actions) >= 2
    /\ script.actions[1].type = "click"
    /\ script.actions[2].type = "click"
    /\ script.actions[1].x # script.actions[2].x

(***************************************************************************)
(* The scroll and mousemove listeners of the injected recording script.    *)
(* The page's clock advances by Quantum; the user scrolls or moves the      *)
(* mouse every EventStep at most; a timer runs when it is due.             *)
(***************************************************************************)
Quantum == 20

EventStep == 60

\* scroll positions and pointer positions
Positions == {1, 2}

\* clearTimeout leaves every timer in place
clearTimeout_keeps(pending, id) == pending

\* clearTimeout(id); an id that no pending timer has is ignored
clearTimeout(pending, id) == { t \in pending : t.id # id }

\* setTimeout(callback, delay): the timer added for a callback that
\* closes over e.clientX
setTimeout(pending, id, listener, delay, x) ==
    pending \cup {[id |-> id, listener |-> listener, due |-> clock + delay, x |-> x]}

\* the entry that a timer's callback pushes when it runs
CallbackEntry(t) ==
    IF t.listener = "scroll"
    THEN [type |-> "scroll", scrollY |-> scrollY, scrollX |-> 0, timestamp |-> clock]
    ELSE [type |-> "mousemove", x |-> t.x, y |-> t.x, timestamp |-> clock]

InitScript ==
    /\ schema = <<>>
    /\ InitPage
    /\ currentTrackedState = 0
    /\ prevTracked = 0
    /\ lastOp = "init"
    /\ InitRecorder
    /\ InitNoConversion
    /\ InitPageScript
    /\ InitTools

\* the page is scrolled to y and the scroll listener runs
OnScroll ==
    /\ Len(raw) < MaxRaw
    /\ clock % EventStep = 0
    /\ \E y \in Positions :
          /\ y # scrollY
          /\ scrollY' = y
          /\ raw' = Append(raw, [type |-> "scroll", pos |-> y, t |-> clock])
    /\ timers' = setTimeout(clearTimeout(timers, scrollTimeout), nextTimer, "scroll", 100, 0)
    /\ scrollTimeout' = nextTimer
    /\ nextTimer' = nextTimer + 1
    /\ lastOp' = "scroll"
    /\ UNCHANGED <<schema, win, nested, dom, currentTrackedState, prevTracked>>
    /\ UNCHANGED recVars
    /\ UNCHANGED convVars
    /\ UNCHANGED fileVars
    /\ UNCHANGED toolVars
    /\ UNCHANGED <<clock, mouseMoveTimeout>>

\* the pointer moves to x and the mousemove listener runs
OnMouseMove ==
    /\ Len(raw) < MaxRaw
    /\ clock % EventStep = 0
    /\ \E x \in Positions :
          /\ raw' = Append(raw, [type |-> "mousemove", pos |-> x, t |-> clock])
          /\ timers' = setTimeout(clearTimeout(timers, mouseMoveTimeout), nextTimer,
                                  "mousemove", 200, x)
    /\ mouseMoveTimeout' = nextTimer
    /\ nextTimer' = nextTimer + 1
    /\ lastOp' = "mousemove"
    /\ UNCHANGED <<schema, win, nested, dom, currentTrackedState, prevTracked>>
    /\ UNCHANGED recVars
    /\ UNCHANGED convVars
    /\ UNCHANGED fileVars
    /\ UNCHANGED toolVars
    /\ UNCHANGED <<clock, scrollTimeout, scrollY>>

\* a timer that is due runs its callback
TimerFires ==
    /\ \E t \in timers :
          /\ t.due <= clock
          /\ timers' = timers \ {t}
          /\ recordedEvents' = Append(recordedEvents, CallbackEntry(t))
    /\ lastOp' = "timer"
    /\ UNCHANGED <<schema, win, nested, dom, currentTrackedState, prevTracked>>
    /\ UNCHANGED <<STATES_SCHEMA_loaded, capture_snapshots, pc, pageAlive,
                   shouldStopRecording, events, last_stage, snapshots, now, hostRun,
                   lastRead, observed>>
    /\ UNCHANGED convVars
    /\ UNCHANGED fileVars
    /\ UNCHANGED toolVars
    /\ UNCHANGED <<clock, nextTimer, scrollTimeout, mouseMoveTimeout, scrollY, raw>>

\* time passes while no timer is due
ClockTick ==
    /\ \A t \in timers : t.due > clock
    /\ clock < MaxQuanta * Quantum
    /\ clock' = clock + Quantum
    /\ lastOp' = "clock"
    /\ UNCHANGED <<schema, win, nested, dom, currentTrackedState, prevTracked>>
    /\ UNCHANGED recVars
    /\ UNCHANGED convVars
    /\ UNCHANGED fileVars
    /\ UNCHANGED toolVars
    /\ UNCHANGED <<timers, nextTimer, scrollTimeout, mouseMoveTimeout, scrollY, raw>>

NextScript ==
    \/ OnScroll
    \/ OnMouseMove
    \/ TimerFires
    \/ ClockTick

SpecScript == InitScript /\ [][NextScript]_vars

(***************************************************************************)
(* Properties of the listeners.                                            *)
(***************************************************************************)
Window(type) == IF type = "scroll" THEN 100 ELSE 200

RawOf(type) == SelectSeq(raw, LAMBDA e : e.type = type)

EntriesOf(type) == SelectSeq(recordedEvents, LAMBDA e : e.type = type)

\* the last event of every burst: the events that no event of their type
\* follows by less than the window
RECURSIVE LastsFrom(_, _, _)
LastsFrom(evs, i, w) ==
    IF i > Len(evs) THEN <<>>
    ELSE IF i = Len(evs) \/ evs[i + 1].t - evs[i].t >= w
         THEN <<evs[i]>> \o LastsFrom(evs, i + 1, w)
         ELSE LastsFrom(evs, i + 1, w)

Lasts(type) == LastsFrom(RawOf(type), 1, Window(type))

EntryPosition(entry) == IF entry.type = "scroll" THEN entry.scrollY ELSE entry.x

\* C7: the recorded scroll entries are, one for one and in order, the bursts
\* of scroll events (each event less than 100 ms after the previous one): the
\* entry of a burst is there once 100 ms have passed since the burst's last
\* event and not before, is stamped 100 ms after that event and carries its
\* position; the same for mousemove with 200 ms.
C7_OneEntryPerBurst ==
    \A type \in {"scroll", "mousemove"} :
        LET L == Lasts(type)
            E == EntriesOf(type)
        IN  /\ Len(E) <= Len(L)
            /\ \A k \in 1..Len(L) :
                  /\ L[k].t + Window(type) < clock => k <= Len(E)
                  /\ L[k].t + Window(type) > clock => k > Len(E)
            /\ \A k \in 1..Len(E) :
                  /\ EntryPosition(E[k]) = L[k].pos
                  /\ E[k].timestamp = L[k].t + Window(type)

\* a burst of two scrolls and a burst of two mousemoves 120 ms apart, each
\* recorded as one entry with the position of its second event
C7_Witness ==
    /\ Len(RawOf("scroll")) = 2
    /\ Len(RawOf("mousemove")) = 2
    /\ RawOf("scroll")[1].pos # RawOf("scroll")[2].pos
    /\ RawOf("mousemove")[1].pos # RawOf("mousemove")[2].pos
    /\ RawOf("mousemove")[2].t - RawOf("mousemove")[1].t = 120
    /\ Len(EntriesOf("scroll")) = 1
    /\ Len(EntriesOf("mousemove")) = 1
    /\ EntriesOf("scroll")[1].scrollY = RawOf("scroll")[2].pos
    /\ EntriesOf("mousemove")[1].x = RawOf("mousemove")[2].pos

(***************************************************************************)
(* Properties of the recorder.                                             *)
(***************************************************************************)
\* the step is a turn of the poll loop that ran _check_stage_change with
\* snapshot capture enabled
CheckedStep == lastOp' = "tick" /\ hostRun'.ran /\ capture_snapshots

\* C8: on a poll tick with snapshot capture enabled, a detected state id
\* that differs from last_stage gets a snapshot captured on this tick and
\* becomes last_stage; a detected id equal to last_stage leaves the snapshots
\* and last_stage as they are.
C8_SnapshotOnChange ==
    [][ CheckedStep =>
          IF hostRun'.detected # last_stage
          THEN /\ last_stage' = hostRun'.detected
               /\ hostRun'.detected \in DOMAIN snapshots'
               /\ snapshots'[hostRun'.detected].timestamp = now
          ELSE /\ last_stage' = last_stage
               /\ snapshots' = snapshots ]_vars

\* the positions in observed at which a state id was entered
EntriesInto(id) == { k \in DOMAIN observed : observed[k].id = id }

Latest(id) == observed[CHOOSE k \in EntriesInto(id) : \A j \in EntriesInto(id) : j <= k]

\* C9: the recorder holds a snapshot for exactly the state ids it has seen
\* entered, one for each, and it is the snapshot captured at the most recent
\* entry; the files written at the end of the recording are those snapshots.
C9_SnapshotOfMostRecentEntry ==
    /\ DOMAIN snapshots = { observed[k].id : k \in DOMAIN observed }
    /\ \A id \in DOMAIN snapshots : snapshots[id] = Latest(id).snapshot
    /\ pc = "saved" =>
          /\ DOMAIN stage_files = { observed[k].id : k \in DOMAIN observed }
          /\ \A id \in DOMAIN stage_files : stage_files[id] = Latest(id).snapshot

\* a recording saved after a state was entered, left for another state and
\* entered again: its file holds the snapshot of the second entry
C9_Witness ==
    /\ pc = "saved"
    /\ Len(observed) = 3
    /\ observed[1].id = observed[3].id
    /\ observed[2].id # observed[1].id
    /\ observed[1].snapshot # observed[3].snapshot
    /\ stage_files[observed[1].id] = observed[3].snapshot
    /\ Cardinality(DOMAIN stage_files) = 2

\* C10: once the recording has stopped, its event list is the page's buffer
\* as the final read returned it; when the final read failed because the
\* page or the browser was gone, it is the list that the last poll read
\* which succeeded returned.
C10_FinalReadOrLastSuccessfulRead ==
    /\ lastOp = "final" => events = recordedEvents
    /\ lastOp = "finalfailed" => events = lastRead
    /\ pc \in {"done", "saved"} => events = lastRead

\* a final read that failed after a poll read had returned events, while
\* the page had buffered more since
C10_Witness ==
    /\ lastOp = "finalfailed"
    /\ Len(lastRead) >= 1
    /\ Len(recordedEvents) > Len(lastRead)
    /\ events = lastRead

(***************************************************************************)
(* test_stage.py and extract_stage.py: a stage snapshot is loaded from the *)
(* session's directory and restored into a freshly opened page.            *)
(***************************************************************************)
Texts(chars) == UNION { [1..n -> chars] : n \in 0..MaxStrLen }

\* the stage numbers a test may ask for
StageNumbers == {0, 4}

\* the values that the recorded page may hold in each variable
TypedChoices(name) ==
    CASE name = "stage" ->
            {Typed("undefined", 0, <<>>), Typed("null", 0, <<>>), Typed("number", 4, <<>>)}
               \cup { Typed("string", 0, x) : x \in Texts({"a", "'", "\\"}) }
      [] name = "isHellMode" -> {Typed("boolean", 1, <<>>), Typed("boolean", 0, <<>>)}
      [] name = "notificationCount" ->
            {Typed("undefined", 0, <<>>), Typed("number", 150, <<>>)}
      [] OTHER -> {Typed("undefined", 0, <<>>), Typed("array", 0, <<"\"", "\\">>),
                   Typed("object", 0, <<>>)}

\* _capture_snapshot on a page with typed values, as json.dump writes it and
\* json.load reads it: the variables that are neither undefined nor null,
\* the markup of the content container ("" without one), the timestamp
captured_snapshot(w, element, t) ==
    [k \in { n \in Names : w[n].t \notin {"undefined", "null"} } \cup {"dom", "timestamp"} |->
        IF k = "dom"
        THEN Typed("string", 0, IF element.present THEN element.html ELSE <<>>)
        ELSE IF k = "timestamp" THEN Typed("number", t, <<>>)
        ELSE w[k]]

\* a lookup that takes a missing file for an empty snapshot
load_snapshot_default(files, n) ==
    [found |-> TRUE, snapshot |-> IF n \in DOMAIN files THEN files[n] ELSE EmptyMap]

\* load_snapshot: FileNotFoundError unless stage_<n>.json exists
load_snapshot(files, n) ==
    IF n \in DOMAIN files
    THEN [found |-> TRUE, snapshot |-> files[n]]
    ELSE [found |-> FALSE, snapshot |-> EmptyMap]

\* str.replace(from, to)
RECURSIVE replace(_, _, _)
replace(text, from, to) ==
    IF text = <<>> THEN <<>>
    ELSE (IF Head(text) = from THEN to ELSE <<Head(text)>>) \o replace(Tail(text), from, to)

\* json.dumps of the items of a list of one-character strings: each item
\* between double quotes with backslash, double quote and newline escaped
RECURSIVE json_items(_)
json_items(items) ==
    IF items = <<>> THEN <<>>
    ELSE <<"\"">>
         \o replace(replace(replace(<<Head(items)>>, "\\", <<"\\", "\\">>),
                            "\"", <<"\\", "\"">>),
                    "\n", <<"\\", "n">>)
         \o <<"\"">>
         \o (IF Len(items) > 1 THEN <<",", " ">> ELSE <<>>)
         \o json_items(Tail(items))

Statement(target, kind, text, n) == [target |-> target, kind |-> kind, text |-> text, n |-> n]

\* the assignment that restore_state writes for one variable, by the type
\* of its value: str, bool, int or float, list, and json.dumps for anything
\* else (an empty object, null)
assignment(var_name, value) ==
    CASE value.t = "string" ->
            Statement(var_name, "single", <<"'">> \o value.s \o <<"'">>, 0)
      [] value.t = "boolean" ->
            Statement(var_name, "keyword", IF value.n = 1 THEN <<"true">> ELSE <<"false">>, 0)
      [] value.t = "number" -> Statement(var_name, "numeral", <<>>, value.n)
      [] value.t = "array" ->
            Statement(var_name, "json", <<"[">> \o json_items(value.s) \o <<"]">>, 0)
      [] value.t = "object" -> Statement(var_name, "json", <<"{", "}">>, 0)
      [] OTHER -> Statement(var_name, "keyword", <<"null">>, 0)

RECURSIVE assignments(_, _)
\* every configured variable is assigned, null when the snapshot lacks it
assignments_everyVariable(snap, i) ==
    [j \in 1..Len(ConfigVariables) |->
        assignment(ConfigVariables[j],
                   IF ConfigVariables[j] \in DOMAIN snap THEN snap[ConfigVariables[j]]
                   ELSE Typed("null", 0, <<>>))]

\* for var_name in config['variables']: if var_name in snapshot
assignments(snap, i) ==
    IF i > Len(ConfigVariables) THEN <<>>
    ELSE (IF ConfigVariables[i] \in DOMAIN snap
          THEN <<assignment(ConfigVariables[i], snap[ConfigVariables[i]])>>
          ELSE <<>>) \o assignments(snap, i + 1)

\* restore_script, one statement for each line; dom_html is the markup with
\* backslash, quote and newline escaped for a JavaScript string literal
restore_script(snap) ==
    assignments(snap, 1)
    \o (IF "dom" \in DOMAIN snap
        THEN LET dom_html == replace(replace(replace(snap["dom"].s,
                                                     "\\", <<"\\", "\\">>),
                                             "'", <<"\\", "'">>),
                                     "\n", <<"\\", "n">>)
             IN  <<Statement("innerHTML", "single", <<"'">> \o dom_html \o <<"'">>, 0)>>
        ELSE <<>>)
    \o (IF "notificationCount" \in DOMAIN snap
        THEN <<Statement("textContent", "numeral", <<>>, snap["notificationCount"].n)>>
        ELSE <<>>)

(***************************************************************************)
(* What the page does with the restore script: the script is parsed as a   *)
(* whole, then its statements run in order until one throws.               *)
(***************************************************************************)
NoLiteral == [ok |-> FALSE, v |-> <<>>, next |-> 0]

\* the characters of a string literal from position i to its closing quote;
\* \n stands for a newline, a backslash before a newline for nothing, any
\* other escaped character for itself
RECURSIVE Scan(_, _, _, _)
Scan(text, i, q, acc) ==
    IF i > Len(text) THEN NoLiteral
    ELSE IF text[i] = q THEN [ok |-> TRUE, v |-> acc, next |-> i + 1]
    ELSE IF text[i] = "\n" THEN NoLiteral
    ELSE IF text[i] = "\\"
         THEN IF i + 1 > Len(text) THEN NoLiteral
              ELSE Scan(text, i + 2, q,
                        acc \o (IF text[i + 1] = "n" THEN <<"\n">>
                                ELSE IF text[i + 1] = "\n" THEN <<>>
                                ELSE <<text[i + 1]>>))
         ELSE Scan(text, i + 1, q, Append(acc, text[i]))

\* the elements of an array literal of strings, from position i
RECURSIVE Elements(_, _, _)
Elements(text, i, acc) ==
    IF i > Len(text) \/ text[i] # "\"" THEN NoLiteral
    ELSE LET r == Scan(text, i + 1, "\"", <<>>)
         IN  IF ~r.ok \/ r.next > Len(text) THEN NoLiteral
             ELSE IF text[r.next] = "]"
                  THEN IF r.next = Len(text)
                       THEN [ok |-> TRUE, v |-> acc \o r.v, next |-> r.next + 1]
                       ELSE NoLiteral
             ELSE IF text[r.next] = "," /\ r.next + 1 <= Len(text) /\ text[r.next + 1] = " "
                  THEN Elements(text, r.next + 2, acc \o r.v)
             ELSE NoLiteral

\* the value of the right-hand side of a statement; ok is FALSE when the
\* statement does not parse: a string literal that does not end where the
\* text ends, an array literal that is not well formed
Evaluate(stmt) ==
    CASE stmt.kind = "single" ->
            LET r == IF stmt.text = <<>> \/ stmt.text[1] # "'" THEN NoLiteral
                     ELSE Scan(stmt.text, 2, "'", <<>>)
            IN  [ok |-> r.ok /\ r.next = Len(stmt.text) + 1, v |-> Typed("string", 0, r.v)]
      [] stmt.kind = "json" /\ stmt.text = <<"{", "}">> ->
            [ok |-> TRUE, v |-> Typed("object", 0, <<>>)]
      [] stmt.kind = "json" ->
            LET r == IF Len(stmt.text) < 2 \/ stmt.text[1] # "[" THEN NoLiteral
                     ELSE IF stmt.text = <<"[", "]">>
                          THEN [ok |-> TRUE, v |-> <<>>, next |-> 3]
                     ELSE Elements(stmt.text, 2, <<>>)
            IN  [ok |-> r.ok, v |-> Typed("array", 0, r.v)]
      [] stmt.kind = "numeral" -> [ok |-> TRUE, v |-> Typed("number", stmt.n, <<>>)]
      [] OTHER ->
            [ok |-> TRUE,
             v |-> IF stmt.text = <<"true">> THEN Typed("boolean", 1, <<>>)
                   ELSE IF stmt.text = <<"false">> THEN Typed("boolean", 0, <<>>)
                   ELSE Typed("null", 0, <<>>)]

\* innerHTML = ... appends to the markup that is there
SetInnerHTML_appends(element, html) == [present |-> TRUE, html |-> element.html \o html]

\* element.innerHTML = html, for markup that is text without < and &
SetInnerHTML(element, html) == [present |-> TRUE, html |-> html]

\* the statements from position i on
RECURSIVE Run(_, _, _)
Run(statements, i, page) ==
    IF i > Len(statements) THEN page
    ELSE LET stmt == statements[i]
             value == Evaluate(stmt).v
         IN  IF stmt.target = "innerHTML"
             THEN IF ~page.contentArea.present
                  THEN [page EXCEPT !.error = "TypeError"]
                  ELSE Run(statements, i + 1,
                           [page EXCEPT !.contentArea = SetInnerHTML(@, value.s)])
             ELSE IF stmt.target = "textContent"
             THEN IF ~page.counter.present
                  THEN [page EXCEPT !.error = "TypeError"]
                  ELSE Run(statements, i + 1,
                           [page EXCEPT !.counter = [present |-> TRUE, text |-> value.n]])
             ELSE Run(statements, i + 1, [page EXCEPT !.live[stmt.target] = value])

\* page.evaluate(full_script)
evaluate_script(statements, page) ==
    IF \E i \in DOMAIN statements : ~Evaluate(statements[i]).ok
    THEN [page EXCEPT !.error = "SyntaxError"]
    ELSE Run(statements, 1, page)

\* snapshots/<session>/ as a recording with --capture-snapshots left it
InitStage ==
    /\ schema = <<>>
    /\ InitPage
    /\ currentTrackedState = 0
    /\ prevTracked = 0
    /\ lastOp = "init"
    /\ STATES_SCHEMA_loaded = TRUE
    /\ capture_snapshots = TRUE
    /\ pc = "saved"
    /\ pageAlive = FALSE
    /\ recordedEvents = <<>>
    /\ shouldStopRecording = FALSE
    /\ events = <<>>
    /\ last_stage = -1
    /\ snapshots = EmptyMap
    /\ now = 0
    /\ hostRun = NoRun
    /\ lastRead = <<>>
    /\ observed = <<>>
    /\ \E n \in StageNumbers,
          e \in {NoElement} \cup { [present |-> TRUE, html |-> x] :
                                      x \in Texts({"'", "\\", "\n"}) },
          a \in TypedChoices("stage"), b \in TypedChoices("notificationCount"),
          c \in TypedChoices("isHellMode"), d \in TypedChoices("urgentTimers") :
          stage_files =
             [k \in {n} |->
                 captured_snapshot([x \in Names |->
                                       CASE x = "stage" -> a
                                         [] x = "notificationCount" -> b
                                         [] x = "isHellMode" -> c
                                         [] OTHER -> d], e, 1)]
    /\ metadata = NoMetadata
    /\ InitNoConversion
    /\ InitPageScript
    /\ InitTools

\* extract_stage.py: the snapshot file of a stage is looked for
extract_stage ==
    /\ testPc = "idle"
    /\ stage_number = -1
    /\ \E n \in StageNumbers :
          /\ stage_number' = n
          /\ error' = IF load_snapshot(stage_files, n).found THEN "none"
                      ELSE "FileNotFoundError"
    /\ testPc' = IF error' = "none" THEN "extracted" ELSE "failed"
    /\ lastOp' = "extract"
    /\ UNCHANGED <<programVars, replayVars, schemaVars, sessionVars>>
    /\ UNCHANGED <<test_snapshot, live, contentArea, counter, browser, restores, afterFirst>>

\* test_stage up to "Loading snapshot...": load_snapshot
load ==
    /\ testPc \in {"idle", "extracted"}
    /\ \E n \in StageNumbers :
          /\ testPc = "extracted" => n = stage_number
          /\ stage_number' = n
          /\ LET r == load_snapshot(stage_files, n)
             IN  /\ test_snapshot' = r.snapshot
                 /\ error' = IF r.found THEN "none" ELSE "FileNotFoundError"
                 /\ testPc' = IF r.found THEN "loaded" ELSE "failed"
    /\ lastOp' = "load"
    /\ UNCHANGED <<programVars, replayVars, schemaVars, sessionVars>>
    /\ UNCHANGED <<live, contentArea, counter, browser, restores, afterFirst>>

\* test_stage: the browser is launched and the page that --html names is
\* opened, its variables as its script declares them
open_page ==
    /\ testPc = "loaded"
    /\ live' = [n \in Names |->
                   CASE n = "stage" -> Typed("number", 0, <<>>)
                     [] n = "notificationCount" -> Typed("number", 0, <<>>)
                     [] n = "isHellMode" -> Typed("boolean", 0, <<>>)
                     [] OTHER -> Typed("array", 0, <<>>)]
    /\ \E hasContent \in BOOLEAN :
          contentArea' = IF hasContent THEN [present |-> TRUE, html |-> <<"a">>]
                         ELSE NoElement
    /\ counter' = [present |-> TRUE, text |-> 0]
    /\ browser' = TRUE
    /\ testPc' = "page"
    /\ lastOp' = "open"
    /\ UNCHANGED <<programVars, replayVars, schemaVars, sessionVars>>
    /\ UNCHANGED <<stage_number, test_snapshot, error, restores, afterFirst>>

\* restore_state(page, snapshot); an exception ends test_stage and closes
\* the browser
restore_state ==
    /\ testPc \in {"page", "restored"}
    /\ restores < MaxRestores
    /\ LET page == evaluate_script(restore_script(test_snapshot),
                                   [live |-> live, contentArea |-> contentArea,
                                    counter |-> counter, error |-> "none"])
       IN  /\ live' = page.live
           /\ contentArea' = page.contentArea
           /\ counter' = page.counter
           /\ error' = page.error
           /\ testPc' = IF page.error = "none" THEN "restored" ELSE "failed"
           /\ browser' = (page.error = "none")
           /\ afterFirst' = IF restores = 0
                            THEN <<page.live, page.contentArea, page.counter>>
                            ELSE afterFirst
    /\ restores' = restores + 1
    /\ lastOp' = "restore"
    /\ UNCHANGED <<programVars, replayVars, schemaVars, sessionVars>>
    /\ UNCHANGED <<stage_number, test_snapshot>>

NextStage ==
    \/ extract_stage
    \/ load
    \/ open_page
    \/ restore_state

SpecStage == InitStage /\ [][NextStage]_vars

\* the observable state of the test page
Observable == <<live, contentArea, counter>>

\* the variables of the snapshot that restore_state writes back
Restored == Names \cap DOMAIN test_snapshot

C12_RoundTrip ==
    (lastOp = "restore" /\ restores = 1)
       => /\ \A var \in Restored : live[var] = test_snapshot[var]
          /\ contentArea.present => contentArea.html = test_snapshot["dom"].s

\* C18: a stage without a file gives FileNotFoundError, with no browser
\* launched and nothing restored; a stage with a file gives the stored
\* snapshot.
C18_SnapshotNotFound ==
    /\ (lastOp \in {"load", "extract"} /\ stage_number \notin DOMAIN stage_files)
          => /\ error = "FileNotFoundError"
             /\ testPc = "failed"
             /\ ~browser
             /\ restores = 0
             /\ Observable = <<[n \in Names |-> Typed("undefined", 0, <<>>)], NoElement,
                               [present |-> FALSE, text |-> 0]>>
    /\ (lastOp = "load" /\ stage_number \in DOMAIN stage_files)
          => /\ error = "none"
             /\ test_snapshot = stage_files[stage_number]
    /\ browser => stage_number \in DOMAIN stage_files

C18_Witness ==
    /\ lastOp = "load"
    /\ stage_number \notin DOMAIN stage_files
    /\ error = "FileNotFoundError"
    /\ ~browser

(***************************************************************************)
(* replay_session.py (SessionReplayer.replay) and the execution of an      *)
(* action script (SessionRecorder.record_with_script).  Times are in       *)
(* milliseconds.                                                           *)
(***************************************************************************)
\* the recordings that are replayed: clicks, key presses and scrolls at
\* 0 s, 0.2 s and 1.2 s
ReplayRecordings ==
    UNION { { r \in [1..n -> { At(k, t) :
                                  k \in { e \in EventKinds :
                                             /\ e.type # "mousemove"
                                             /\ "scrollX" \notin DOMAIN e
                                             /\ e.type = "click" => e.selector = "#like" },
                                  t \in {0, 200, 1200} }] :
                \A i \in 1..(n - 1) : r[i].timestamp <= r[i + 1].timestamp }
            : n \in 0..MaxReplayLen }

\* the --speed argument
Speeds == {1, 2}

\* the time that the execution of one event or action takes
Durations == {0, 300}

\* for (let i = 1; i < 99999; i++): the end of the range of handles
PauseRange == 99999

\* only the first handle is cleared
clearAll_first(pending) == pending \ {1}

\* _pause_app: window.clearInterval(i) and window.clearTimeout(i) for every
\* i from 1 up to PauseRange - 1
clearAll(pending) == { h \in pending : h \notin 1..(PauseRange - 1) }

\* the handles that the page's own script holds when it has loaded: none,
\* or one of a young page and one beyond the range of _pause_app
LoadedHandles == {{}, {1, PauseRange}}

\* the replay does not wait for the target time
slept_never(wait) == 0

\* every event starts at its target time, whatever the previous one does
slept_toTarget(wait) == wait

\* if wait_time > 0: time.sleep(wait_time)
slept(wait) == IF wait > 0 THEN wait ELSE 0

\* an error ends the loop
after_error_leaves(i, n) == n + 1

\* except Exception as e: print(...), and the loop goes on
after_error(i, n) == i + 1

\* a click that gives up when the selector does not resolve
execute_event_noFallback(event, selector, pointer) ==
    IF event.type = "click"
    THEN [ok |-> selector, calls |-> <<"page.click">>]
    ELSE [ok |-> selector,
          calls |-> CASE event.type = "scroll" -> <<"page.evaluate">>
                      [] event.type = "keypress" -> <<"page.keyboard.press">>
                      [] OTHER -> <<"page.mouse.move">>]

\* _execute_event: the calls made on the page and whether the last of them
\* returned; selector says whether the first call succeeds, pointer whether
\* the click by coordinates does
execute_event(event, selector, pointer) ==
    IF event.type = "click"
    THEN IF selector THEN [ok |-> TRUE, calls |-> <<"page.click">>]
         ELSE [ok |-> pointer, calls |-> <<"page.click", "page.mouse.click">>]
    ELSE [ok |-> selector,
          calls |-> CASE event.type = "scroll" -> <<"page.evaluate">>
                      [] event.type = "keypress" -> <<"page.keyboard.press">>
                      [] OTHER -> <<"page.mouse.move">>]

InitReplay ==
    /\ schema = <<>>
    /\ InitPage
    /\ currentTrackedState = 0
    /\ prevTracked = 0
    /\ lastOp = "init"
    /\ InitRecorder
    /\ recording \in ReplayRecordings
    /\ cvPos = 1
    /\ actions = <<>>
    /\ last_time = 0
    /\ script = NoScript
    /\ InitPageScript
    /\ InitTools

\* SessionReplayer(recording_path).replay(speed) on a recording, up to the
\* loop
replay ==
    /\ script.written
    /\ replayPc = "idle"
    /\ \E s \in Speeds : speed' = s
    /\ replayer' = "SessionReplayer"
    /\ replayInput' = "recording"
    /\ replayPc' = IF recording = <<>> THEN "done" ELSE "events"
    /\ handles' \in LoadedHandles
    /\ lastOp' = "replay"
    /\ UNCHANGED <<programVars, stageVars, schemaVars, sessionVars>>
    /\ UNCHANGED <<rpos, elapsed, executed, reported, replayError, paused>>

\* SessionReplayer(script_path).replay(speed) on the file that the converter
\* wrote: self.recording['events'] is looked up before the browser opens
replay_script ==
    /\ script.written
    /\ replayPc = "idle"
    /\ \E s \in Speeds : speed' = s
    /\ replayer' = "SessionReplayer"
    /\ replayInput' = "script"
    /\ replayPc' = "failed"
    /\ replayError' = "KeyError"
    /\ lastOp' = "replay"
    /\ UNCHANGED <<programVars, stageVars, schemaVars, sessionVars>>
    /\ UNCHANGED <<rpos, elapsed, executed, reported, handles, paused>>

\* one turn of "for i, event in enumerate(events)":
\* target_time = event['timestamp'] / speed, wait_time = target_time - elapsed
\* the execution may raise (ok is FALSE); it raises, now and in every later
\* turn, when the page or the browser is gone
replay_event ==
    /\ replayPc = "events"
    /\ LET wait == (recording[rpos].timestamp \div speed) - elapsed
           at == elapsed + slept(wait)
           run == [selector \in BOOLEAN, pointer \in BOOLEAN |->
                      execute_event(recording[rpos], selector, pointer)]
       IN  \E d \in Durations, selector \in BOOLEAN, pointer \in BOOLEAN, gone \in BOOLEAN :
              /\ gone => (~selector /\ ~pointer)
              /\ (executed # <<>> /\ executed[Len(executed)].gone) => gone
              /\ executed' = Append(executed,
                                    [index |-> rpos, before |-> elapsed, at |-> at,
                                     end |-> at + d, ok |-> run[selector, pointer].ok,
                                     gone |-> gone, selector |-> selector,
                                     calls |-> run[selector, pointer].calls])
              /\ reported' = IF run[selector, pointer].ok THEN reported
                             ELSE Append(reported, rpos)
              /\ elapsed' = at + d
              /\ rpos' = IF run[selector, pointer].ok THEN rpos + 1
                         ELSE after_error(rpos, Len(recording))
              /\ handles' \in IF run[selector, pointer].ok
                               THEN {handles, handles \cup {rpos + 1}}
                               ELSE {handles}
    /\ replayPc' = IF rpos' > Len(recording) THEN "done" ELSE "events"
    /\ lastOp' = "event"
    /\ UNCHANGED <<programVars, stageVars, schemaVars, sessionVars>>
    /\ UNCHANGED <<replayer, replayInput, speed, replayError, paused>>

\* SessionRecorder.record_with_script(script_path), up to the loop
record_with_script ==
    /\ script.written
    /\ replayPc = "idle"
    /\ replayer' = "SessionRecorder"
    /\ replayInput' = "script"
    /\ replayPc' = IF script.actions = <<>> THEN "done" ELSE "actions"
    /\ lastOp' = "replay"
    /\ UNCHANGED <<programVars, stageVars, schemaVars, sessionVars>>
    /\ UNCHANGED <<speed, rpos, elapsed, executed, reported, replayError, handles, paused>>

\* one turn of "for i, action in enumerate(actions, 1)": the wait, the
\* execution and, when it raised nothing, time.sleep(0.1)
execute_action ==
    /\ replayPc = "actions"
    /\ LET action == script.actions[rpos]
           at == elapsed + (IF "wait" \in DOMAIN action THEN action.wait ELSE 0)
           run == [selector \in BOOLEAN, pointer \in BOOLEAN |->
                      execute_event(action, selector, pointer)]
       IN  \E d \in Durations, selector \in BOOLEAN, pointer \in BOOLEAN, gone \in BOOLEAN :
              /\ gone => (~selector /\ ~pointer)
              /\ (executed # <<>> /\ executed[Len(executed)].gone) => gone
              /\ executed' = Append(executed,
                                    [index |-> rpos, before |-> elapsed, at |-> at,
                                     end |-> at + d, ok |-> run[selector, pointer].ok,
                                     gone |-> gone, selector |-> selector,
                                     calls |-> run[selector, pointer].calls])
              /\ reported' = IF run[selector, pointer].ok THEN reported
                             ELSE Append(reported, rpos)
              /\ elapsed' = at + d + (IF run[selector, pointer].ok THEN 100 ELSE 0)
              /\ rpos' = IF run[selector, pointer].ok THEN rpos + 1
                         ELSE after_error(rpos, Len(script.actions))
    /\ replayPc' = IF rpos' > Len(script.actions) THEN "done" ELSE "actions"
    /\ lastOp' = "action"
    /\ UNCHANGED <<programVars, stageVars, schemaVars, sessionVars>>
    /\ UNCHANGED <<replayer, replayInput, speed, replayError, handles, paused>>

\* self._pause_app(page), after the loop of replay: page.evaluate raises
\* when the page is gone, and the error is printed
pause_app ==
    /\ replayPc = "done"
    /\ replayer = "SessionReplayer"
    /\ \E gone \in BOOLEAN :
          /\ (executed # <<>> /\ executed[Len(executed)].gone) => gone
          /\ handles' = IF gone THEN handles ELSE clearAll(handles)
          /\ paused' = Append(paused, [after |-> Len(executed), before |-> handles,
                                       failed |-> gone])
    /\ replayPc' = "paused"
    /\ lastOp' = "pause"
    /\ UNCHANGED <<programVars, stageVars, schemaVars, sessionVars>>
    /\ UNCHANGED <<replayer, replayInput, speed, rpos, elapsed, executed, reported, replayError>>

NextReplay ==
    \/ ConvertEvent
    \/ WriteScript
    \/ replay
    \/ replay_script
    \/ replay_event
    \/ pause_app
    \/ record_with_script
    \/ execute_action

SpecReplay == InitReplay /\ [][NextReplay]_vars

\* the events or actions that the running loop goes through
ReplayedInput == IF replayInput = "recording" THEN recording ELSE script.actions

\* C13: in the replay of a recording, event i is executed no earlier than
\* its timestamp divided by the speed; an event for which the replay is
\* late is executed at once, with no sleep; the events are executed one by
\* one in the order of the recording, none left out.
C13_ReplayTiming ==
    replayInput = "recording" =>
       \A i \in DOMAIN executed :
          LET e == executed[i]
              target == recording[e.index].timestamp \div speed
          IN  /\ e.index = i
              /\ e.at >= target
              /\ e.at >= e.before
              /\ e.before >= target => e.at = e.before

C13_Witness ==
    /\ replayInput = "recording"
    /\ replayPc = "done"
    /\ speed = 2
    /\ Len(executed) = Len(recording)
    /\ \E i \in DOMAIN executed : executed[i].at > executed[i].before
    /\ \E i \in DOMAIN executed :
          executed[i].before > recording[i].timestamp \div speed

\* C14: an action of a script that carries wait = w is executed w / speed
\* after the previous action, within 50 ms.
C14_WaitOverSpeed ==
    replayInput = "script" =>
       \A i \in DOMAIN executed :
          (i > 1 /\ "wait" \in DOMAIN script.actions[i])
             => LET delay == executed[i].at - executed[i - 1].end
                    scaled == script.actions[i].wait \div speed
                IN  delay - scaled <= 50 /\ scaled - delay <= 50

\* C15: the replayer, given the script that the converter wrote, does not
\* fail on the format and executes each action of the script, in order.
C15_ReplayerAcceptsScript ==
    (replayer = "SessionReplayer" /\ replayInput = "script")
       => /\ replayError = "none"
          /\ replayPc # "failed"
          /\ \A i \in DOMAIN executed : executed[i].index = i
          /\ replayPc = "done" => Len(executed) = Len(script.actions)

\* C16: an event whose execution raises an error is reported, and the
\* replay goes on with the next event: every event of the recording is
\* attempted, in order.
C16_ErrorNonFatal ==
    replayPc \in {"events", "actions", "done"} =>
       /\ \A i \in DOMAIN executed :
             /\ executed[i].index = i
             /\ ~executed[i].ok => \E j \in DOMAIN reported : reported[j] = i
       /\ replayPc \in {"events", "actions"} =>
             /\ rpos = Len(executed) + 1
             /\ rpos <= Len(ReplayedInput)
       /\ replayPc = "done" => Len(executed) = Len(ReplayedInput)
       /\ replayError = "none"

C16_Witness ==
    /\ replayInput = "recording"
    /\ replayPc = "done"
    /\ Len(executed) = 2
    /\ ~executed[1].ok
    /\ executed[2].ok
    /\ reported = <<1>>

(***************************************************************************)
(* generate_state_panel.py: the schema returned by the analysis is         *)
(* validated, saved, and made into the panel whose script detects the      *)
(* state of the page.                                                      *)
(***************************************************************************)
\* what json.loads gives for the response of the analysis: metadata with
\* total_states or none, and a list of states, each with the definition it
\* carries and the required fields it lacks
ReturnedData ==
    { [metadata |-> m, states |-> st] :
         m \in BOOLEAN,
         st \in UNION { [1..n -> { [def |-> def, missing |-> missing] :
                                      def \in { d \in StatePool : d.id \in {0, 1, 4} },
                                      missing \in {{}, {"color_theme"}} }]
                        : n \in 0..MaxReturned } }

\* _validate_states_json
validate_states_json(data) ==
    /\ data.metadata
    /\ Len(data.states) # 0
    /\ \A i \in DOMAIN data.states :
          \A field \in {"id", "name", "description", "color_theme"} :
             field \notin data.states[i].missing

\* detect_states: the response is parsed and validated, ValueError if invalid
detect_states ==
    /\ schemaPc = "idle"
    /\ \E data \in ReturnedData :
          /\ states_data' = data
          /\ IF validate_states_json(data)
             THEN schemaPc' = "detected" /\ schemaError' = "none"
             ELSE schemaPc' = "failed" /\ schemaError' = "ValueError"
    /\ lastOp' = "validate"
    /\ UNCHANGED <<programVars, stageVars, replayVars, sessionVars>>

\* save_states_json, then StatePanelGenerator(states_data).save_to_file:
\* the page with the panel and its script, which goes through self.state_list
generate_panel ==
    /\ schemaPc = "detected"
    /\ schema' = [i \in DOMAIN states_data.states |-> states_data.states[i].def]
    /\ schemaPc' = "panel"
    /\ lastOp' = "generate"
    /\ UNCHANGED <<win, nested, dom, currentTrackedState, prevTracked>>
    /\ UNCHANGED <<recVars, convVars, pageVars, fileVars>>
    /\ UNCHANGED <<states_data, schemaError>>
    /\ UNCHANGED <<stageVars, replayVars, sessionVars>>

NextSchema ==
    \/ detect_states
    \/ generate_panel
    \/ schemaPc = "panel" /\ PageSetVariable
    \/ schemaPc = "panel" /\ PageSetDom
    \/ schemaPc = "panel" /\ updateStateHighlight

SpecSchema == InitIdle /\ [][NextSchema]_vars

\* the ids of the states of the returned schema, in its order
IdsOf(data) == [i \in DOMAIN data.states |-> data.states[i].def.id]

\* every state has the required fields, the list is not empty, and the ids
\* are distinct and leave no gap
WellFormed(data) ==
    /\ Len(data.states) # 0
    /\ \A i \in DOMAIN data.states : data.states[i].missing = {}
    /\ \A i, j \in DOMAIN data.states : i # j => IdsOf(data)[i] # IdsOf(data)[j]
    /\ \A i, j \in DOMAIN data.states :
          \A k \in IdsOf(data)[i]..IdsOf(data)[j] :
             \E m \in DOMAIN data.states : IdsOf(data)[m] = k

\* C17: a schema with a state that lacks a required field, with two states
\* of the same id, with a gap in its ids or with no state is rejected with
\* an error, and no detection is made over it.
C17_MalformedRejected ==
    (schemaPc # "idle" /\ ~WellFormed(states_data)) =>
       /\ schemaPc = "failed"
       /\ schemaError = "ValueError"
       /\ lastOp # "detect"

(***************************************************************************)
(* Recorders that run side by side: each makes its session_id from the     *)
(* clock, keeps its snapshots, and saves them under snapshots/<session_id>. *)
(***************************************************************************)
\* the state ids that a recorder may observe
SessionStages == {0, 4}

\* snapshots/<session_id>/ after a recorder has written its files into it
written_dir(dirs, sid, r, snaps) ==
    LET old == IF sid \in DOMAIN dirs
               THEN dirs[sid]
               ELSE [files |-> EmptyMap, metadata |-> NoMetadata, writers |-> {}]
        ids == { i \in DOMAIN snaps : i >= 0 }
    IN  [files |-> [i \in (DOMAIN old.files) \cup ids |->
                       IF i \in ids THEN snaps[i] ELSE old.files[i]],
         metadata |-> [written |-> TRUE,
                       stages_captured |-> Cardinality(DOMAIN snaps),
                       stage_numbers |-> sorted(ids)],
         writers |-> old.writers \cup {r}]

\* a second passes
Second ==
    /\ wall < MaxSeconds
    /\ wall' = wall + 1
    /\ lastOp' = "second"
    /\ UNCHANGED <<programVars, stageVars, replayVars, schemaVars>>
    /\ UNCHANGED <<session_id, session_pc, session_snapshots, snapshot_dirs>>

\* SessionRecorder.__init__: session_id = session_<%Y%m%d_%H%M%S>
NewRecorder(r) ==
    /\ session_pc[r] = "none"
    /\ session_id' = [session_id EXCEPT ![r] = wall]
    /\ session_pc' = [session_pc EXCEPT ![r] = "recording"]
    /\ lastOp' = "init"
    /\ UNCHANGED <<programVars, stageVars, replayVars, schemaVars>>
    /\ UNCHANGED <<wall, session_snapshots, snapshot_dirs>>

\* _check_stage_change on a change to state id: self.snapshots[id] = snapshot
SessionCapture(r) ==
    /\ session_pc[r] = "recording"
    /\ \E id \in SessionStages :
          session_snapshots' =
             [session_snapshots EXCEPT
                 ![r] = Store(@, id, [recorder |-> r, stage |-> id])]
    /\ lastOp' = "capture"
    /\ UNCHANGED <<programVars, stageVars, replayVars, schemaVars>>
    /\ UNCHANGED <<wall, session_id, session_pc, snapshot_dirs>>

\* _save_snapshots(self.recording['session_id'])
SessionSave(r) ==
    /\ session_pc[r] = "recording"
    /\ session_pc' = [session_pc EXCEPT ![r] = "saved"]
    /\ IF DOMAIN session_snapshots[r] = {}
       THEN UNCHANGED snapshot_dirs
       ELSE snapshot_dirs' =
               [d \in (DOMAIN snapshot_dirs) \cup {session_id[r]} |->
                   IF d = session_id[r]
                   THEN written_dir(snapshot_dirs, d, r, session_snapshots[r])
                   ELSE snapshot_dirs[d]]
    /\ lastOp' = "save"
    /\ UNCHANGED <<programVars, stageVars, replayVars, schemaVars>>
    /\ UNCHANGED <<wall, session_id, session_snapshots>>

NextSessions ==
    \/ Second
    \/ \E r \in Recorders : NewRecorder(r)
    \/ \E r \in Recorders : SessionCapture(r)
    \/ \E r \in Recorders : SessionSave(r)

SpecSessions == InitIdle /\ [][NextSessions]_vars

\* C19: the directory that holds the snapshots and the manifest of one
\* session is written by no other session, and a session's directory holds
\* no more snapshots than there are state ids.
C19_SessionIsolation ==
    \A d \in DOMAIN snapshot_dirs :
       /\ Cardinality(snapshot_dirs[d].writers) <= 1
       /\ \A i \in DOMAIN snapshot_dirs[d].files :
             snapshot_dirs[d].files[i].recorder \in snapshot_dirs[d].writers
       /\ Cardinality(DOMAIN snapshot_dirs[d].files) <= Cardinality(SessionStages)

\* C20: a detection during which the page fails to answer raises nothing
\* and still returns a state id: an id of the schema, or the id that the
\* recorder held before it.
C20_FailureStillReturnsStateId ==
    (HostChecked /\ hostRun.failed)
       => /\ pc \in {"poll", "final"}
          /\ hostRun.detected \in SchemaIds(schema) \cup {hostRun.before}

(***************************************************************************)
(* Schemas with negating conditions: "!isHellMode" and "stage !== 4",      *)
(* beside the initial state "stage === 0".  The generator copies any       *)
(* condition into "if (condition) return id" after one                     *)
(* "const name = findVariable('name')" per identifier.                     *)
(***************************************************************************)
InitNegated ==
    /\ schema \in { s \in [1..2 ->
                     { StateDef(6, <<Atom("not", "isHellMode", 0)>>, NoDom),
                       StateDef(7, <<Atom("ne", "stage", 4)>>,
                                Dom(<<"#floodOverlay">>, <<>>, <<>>, <<>>)) }
                     \cup { st \in StatePool : st.id = 0 }] : Injective(s) }
    /\ InitPage
    /\ currentTrackedState = 0
    /\ prevTracked = 0
    /\ lastOp = "init"
    /\ InitRecorder
    /\ InitNoConversion
    /\ InitPageScript
    /\ InitTools

SpecNegated == InitNegated /\ [][NextDetect]_vars

\* C21: a state whose detection condition refers to a variable that does not
\* resolve is not matched by variables: when its DOM markers do not match
\* either and no earlier state matches, detect does not newly return it.
C21_AbsentNameNotMatched ==
    lastOp = "detect" =>
        \A i \in DOMAIN schema :
            ( /\ schema[i].detection_condition # <<>>
              /\ ~AllResolve(schema[i].detection_condition)
              /\ ~DomMatches(i)
              /\ \A k \in 1..(i - 1) : ~Matches(k)
              /\ prevTracked # schema[i].id )
            => currentTrackedState # schema[i].id

\* C22: a state reached at the DOM step whose four DOM-detection lists are
\* all empty, or that has no dom_detection, matches there: when no earlier
\* state matches, detect returns its id.
C22_EmptyListsMatch ==
    lastOp = "detect" =>
        \A i \in DOMAIN schema :
            ( /\ DomChecks(schema[i].dom_detection, dom) = <<>>
              /\ ~VarMatches(i)
              /\ \A k \in 1..(i - 1) :
                    ~Matches(k) /\ DomChecks(schema[k].dom_detection, dom) # <<>> )
            => currentTrackedState = schema[i].id

\* C23: findVariable returns the value of the global scope whenever the name
\* is defined there, whatever the objects below it hold; only when it is
\* absent there, the property of an object one level below; and nothing when
\* no object has it.  A detection sees the value so resolved: the state
\* "stage >= 1" at the head of the schema is returned exactly when the
\* resolved stage is at least 1.
C23_GlobalScopeFirst ==
    /\ \A n \in Names :
          LET r == findVariable(win, nested, n)
          IN  /\ win[n].ok => r = win[n]
              /\ (~win[n].ok /\ nested[n].ok) => r = nested[n]
              /\ (~win[n].ok /\ ~nested[n].ok) => ~r.ok
    /\ (lastOp = "detect" /\ schema[1].id = 1) =>
          LET stage == IF win["stage"].ok THEN win["stage"] ELSE nested["stage"]
          IN  /\ (stage.ok /\ stage.v >= 1) => currentTrackedState = 1
              /\ (~(stage.ok /\ stage.v >= 1) /\ prevTracked # 1) => currentTrackedState # 1

\* a detection made while the global stage 0 shadowed the stage 1 of an
\* object: the state "stage >= 1" is not returned
C23_Witness ==
    /\ lastOp = "detect"
    /\ schema[1].id = 1
    /\ win["stage"] = Val(0)
    /\ nested["stage"] = Val(1)
    /\ prevTracked # 1
    /\ currentTrackedState # 1

\* C24: in the script written, an action carries a wait only if the time
\* since the previous retained event exceeds a tenth of a second (as the
\* difference of the two timestamps in floating point); an action that
\* follows by no more carries no wait field, and the first action never
\* carries one.
C24_WaitOnlyAboveTenth ==
    script.written =>
        \A k \in (DOMAIN script.actions) \cap (DOMAIN Retained) :
            HasWait(script.actions[k]) =>
                /\ k > 1
                /\ \/ Gap(k) > 100
                   \/ /\ Gap(k) = 100
                      /\ <<Retained[k - 1].timestamp, Retained[k].timestamp>> \in AboveTenth

\* a script of three actions: none on the first, a wait on the second, which
\* follows by more than a tenth, none on the third, which follows by a tenth
C24_Witness ==
    /\ script.written
    /\ Len(script.actions) = 3
    /\ Len(Retained) = 3
    /\ ~HasWait(script.actions[1])
    /\ Gap(2) > 100
    /\ HasWait(script.actions[2])
    /\ Gap(3) = 100
    /\ ~HasWait(script.actions[3])

\* C25: the conversion of a keypress event whose key is a bare modifier
\* appends no action and leaves the reference timestamp of the next wait
\* as it was; the conversion of any other keypress appends one keypress
\* action that carries the key and, beside a wait, nothing else.
C25_ModifierKeysDropped ==
    [][ (cvPos' = cvPos + 1 /\ recording[cvPos].type = "keypress") =>
          IF recording[cvPos].key \in ModifierKeys
          THEN actions' = actions /\ last_time' = last_time
          ELSE /\ Len(actions') = Len(actions) + 1
               /\ SubSeq(actions', 1, Len(actions)) = actions
               /\ actions'[Len(actions')].type = "keypress"
               /\ actions'[Len(actions')].key = recording[cvPos].key
               /\ DOMAIN actions'[Len(actions')] \subseteq {"type", "key", "wait"}
               /\ last_time' = recording[cvPos].timestamp ]_vars

\* a click, a bare Shift and a key "a": two actions, and the wait of the
\* second is counted from the click, not from the Shift
C25_Witness ==
    /\ script.written
    /\ Len(recording) = 3
    /\ recording[1].type = "click"
    /\ recording[2].type = "keypress" /\ recording[2].key = "Shift"
    /\ recording[3].type = "keypress" /\ recording[3].key = "a"
    /\ recording[1].timestamp = 50
    /\ recording[2].timestamp = 300
    /\ recording[3].timestamp = 500
    /\ Len(script.actions) = 2
    /\ script.actions[2] = [type |-> "keypress", key |-> "a", wait |-> 500]

(***************************************************************************)
(* An interactive recording with the keydown listener of the injected      *)
(* script and a reload or navigation of the page, on which the init script *)
(* runs again.  Here raw holds the last keydown event the listener was     *)
(* given.                                                                  *)
(***************************************************************************)
\* (e.ctrlKey || e.metaKey) && e.key === 's'
stop_chord(e) == (e.ctrlKey \/ e.metaKey) /\ e.key = "s"

\* document.addEventListener('keydown', ...)
OnKeyDown ==
    /\ PageRuns
    /\ \E e \in { [ctrlKey |-> TRUE, metaKey |-> FALSE, key |-> "Control", code |-> "ControlLeft"],
                  [ctrlKey |-> TRUE, metaKey |-> FALSE, key |-> "s", code |-> "KeyS"],
                  [ctrlKey |-> FALSE, metaKey |-> TRUE, key |-> "s", code |-> "KeyS"],
                  [ctrlKey |-> FALSE, metaKey |-> FALSE, key |-> "s", code |-> "KeyS"],
                  [ctrlKey |-> TRUE, metaKey |-> FALSE, key |-> "a", code |-> "KeyA"] } :
          /\ raw' = <<e>>
          /\ IF stop_chord(e)
             THEN /\ shouldStopRecording' = TRUE
                  /\ UNCHANGED recordedEvents
             ELSE /\ Len(recordedEvents) < MaxEvents
                  /\ recordedEvents' =
                        Append(recordedEvents,
                               [type |-> "keypress", key |-> e.key, code |-> e.code,
                                timestamp |-> clock])
                  /\ UNCHANGED shouldStopRecording
    /\ lastOp' = "key"
    /\ hostRun' = NoRun
    /\ UNCHANGED <<schema, win, nested, dom, currentTrackedState, prevTracked>>
    /\ UNCHANGED <<STATES_SCHEMA_loaded, capture_snapshots, pc, pageAlive,
                   events, last_stage, snapshots, now>>
    /\ UNCHANGED <<lastRead, observed>>
    /\ UNCHANGED convVars
    /\ UNCHANGED fileVars
    /\ UNCHANGED toolVars
    /\ UNCHANGED <<clock, timers, nextTimer, scrollTimeout, mouseMoveTimeout, scrollY>>

\* the page is reloaded or navigates: page.add_init_script runs the
\* recording script again in the new document, whose timers are not those
\* of the old one; the times of the events dispatched so far are kept
\* relative to the start of the document that runs
PageReload ==
    /\ PageRuns
    /\ recordedEvents' = <<>>
    /\ shouldStopRecording' = FALSE
    /\ clock' = 0
    /\ timers' = {}
    /\ nextTimer' = 1
    /\ scrollTimeout' = 0
    /\ mouseMoveTimeout' = 0
    /\ scrollY' = 0
    /\ raw' = [i \in DOMAIN raw |->
                 IF "t" \in DOMAIN raw[i] THEN [raw[i] EXCEPT !.t = @ - clock]
                 ELSE raw[i]]
    /\ lastOp' = "reload"
    /\ hostRun' = NoRun
    /\ UNCHANGED <<schema, win, nested, dom, currentTrackedState, prevTracked>>
    /\ UNCHANGED <<STATES_SCHEMA_loaded, capture_snapshots, pc, pageAlive,
                   events, last_stage, snapshots, now>>
    /\ UNCHANGED <<lastRead, observed>>
    /\ UNCHANGED convVars
    /\ UNCHANGED fileVars
    /\ UNCHANGED toolVars

NextKeys ==
    \/ StartRecording
    \/ OnKeyDown
    \/ PageReload
    \/ PageClose
    \/ PollTick
    \/ Interrupt
    \/ FinalRead

SpecKeys == InitIdle /\ [][NextKeys]_vars

\* C26: a keydown event that is the stop chord (Control or Meta held, key
\* "s") sets the stop flag and appends nothing to the event buffer; every
\* other keydown event appends exactly one keypress entry, with its key,
\* its code and the time, and leaves the stop flag as it is; and the stop
\* flag, once set, is never cleared.
C26_StopChord ==
    [][ /\ lastOp' = "key" =>
              LET e == raw'[1]
              IN  IF (e.ctrlKey \/ e.metaKey) /\ e.key = "s"
                  THEN /\ shouldStopRecording'
                       /\ recordedEvents' = recordedEvents
                  ELSE /\ recordedEvents' =
                             Append(recordedEvents,
                                    [type |-> "keypress", key |-> e.key,
                                     code |-> e.code, timestamp |-> clock])
                       /\ shouldStopRecording' = shouldStopRecording
        /\ shouldStopRecording => shouldStopRecording' ]_vars

\* C27: the stop is cooperative.  No step but a turn of the poll loop (or
\* the host's own interrupt) ends the loop; the turn of the loop that
\* follows the stop chord on a page that is alive reads the events, then
\* ends the loop; while the stop flag is set no buffered event is dropped,
\* and the final read of a page that is alive takes the whole buffer.
C27_CooperativeStop ==
    [][ /\ (pc = "poll" /\ pc' # "poll") => lastOp' \in {"tick", "host"}
        /\ (lastOp' = "tick" /\ pageAlive /\ raw # <<>> /\ stop_chord(raw[1])) =>
              /\ events' = recordedEvents
              /\ pc' = "final"
        /\ (shouldStopRecording /\ PageRuns) =>
              /\ Len(recordedEvents') >= Len(recordedEvents)
              /\ SubSeq(recordedEvents', 1, Len(recordedEvents)) = recordedEvents
        /\ (lastOp' = "final") => events' = recordedEvents ]_vars

(***************************************************************************)
(* _capture_snapshot on a page whose variables hold values of any type.    *)
(***************************************************************************)
\* the page's script assigns one of the configured variables or rewrites
\* the markup of its content container
PageAssign ==
    /\ \/ /\ \E n \in Names : \E x \in TypedChoices(n) :
                /\ x.t = "string" => x.s = <<"a">>
                /\ x # live[n]
                /\ live' = [live EXCEPT ![n] = x]
          /\ UNCHANGED contentArea
       \/ /\ \E x \in Texts({"a"}) :
                /\ [present |-> TRUE, html |-> x] # contentArea
                /\ contentArea' = [present |-> TRUE, html |-> x]
          /\ UNCHANGED live
    /\ lastOp' = "page"
    /\ UNCHANGED <<programVars, replayVars, schemaVars, sessionVars>>
    /\ UNCHANGED <<testPc, stage_number, test_snapshot, counter, browser, error, restores,
                   afterFirst>>

\* snapshot = self._capture_snapshot(page)
CapturePage ==
    /\ test_snapshot' = captured_snapshot(live, contentArea, 1)
    /\ lastOp' = "capture"
    /\ UNCHANGED <<programVars, replayVars, schemaVars, sessionVars>>
    /\ UNCHANGED <<testPc, stage_number, live, contentArea, counter, browser, error,
                   restores, afterFirst>>

NextCapture ==
    \/ PageAssign
    \/ CapturePage

SpecCapture == InitIdle /\ [][NextCapture]_vars

\* C28: a captured snapshot holds a value for exactly the configured
\* variables that resolve in the page at capture time (those that are not
\* undefined), each equal to the variable's value; the others are omitted,
\* and the markup of the content container is captured whichever variables
\* resolve.
C28_ExactlyResolvedVariables ==
    lastOp = "capture" =>
        /\ Names \cap DOMAIN test_snapshot = { n \in Names : live[n].t # "undefined" }
        /\ \A n \in Names \cap DOMAIN test_snapshot : test_snapshot[n] = live[n]
        /\ "dom" \in DOMAIN test_snapshot
        /\ test_snapshot["dom"].s = IF contentArea.present THEN contentArea.html ELSE <<>>

\* C29: once the snapshots of a session are saved, its directory holds
\* exactly one stage file per captured state id, and the stage list of the
\* manifest is in ascending order, is the set of the state ids that have a
\* file, and is as long as the manifest's captured count says: for the
\* directory of the recording (stage_files, metadata) and for every
\* directory under snapshots/.
C29_ManifestMatchesFiles ==
    /\ metadata.written =>
          /\ \A i, j \in DOMAIN metadata.stage_numbers :
                i < j => metadata.stage_numbers[i] < metadata.stage_numbers[j]
          /\ { metadata.stage_numbers[i] : i \in DOMAIN metadata.stage_numbers }
                = DOMAIN stage_files
          /\ DOMAIN stage_files = DOMAIN snapshots
          /\ Len(metadata.stage_numbers) = metadata.stages_captured
    /\ \A d \in DOMAIN snapshot_dirs :
          LET m == snapshot_dirs[d].metadata
          IN  m.written =>
                 /\ \A i, j \in DOMAIN m.stage_numbers :
                       i < j => m.stage_numbers[i] < m.stage_numbers[j]
                 /\ { m.stage_numbers[i] : i \in DOMAIN m.stage_numbers }
                       = DOMAIN snapshot_dirs[d].files
                 /\ Len(m.stage_numbers) = m.stages_captured

\* C30: a captured value that cannot be written in the encoding of its type
\* does not abort the restore: after restore_state every other captured
\* variable holds its captured value, the content container holds the
\* captured markup and the counter shows the captured count.
C30_RestoreNotAborted ==
    (lastOp = "restore" /\ restores = 1 /\ contentArea.present) =>
        /\ \A var \in Restored :
              test_snapshot[var].t # "string" => live[var] = test_snapshot[var]
        /\ contentArea.html = test_snapshot["dom"].s
        /\ "notificationCount" \in Restored =>
              counter.text = test_snapshot["notificationCount"].n

\* C31: the loss of the page or the browser ends the replay: no event of
\* the recording is attempted after an event that found the page gone.
C31_PageLossAborts ==
    replayInput = "recording" =>
       \A i \in DOMAIN executed : i > 1 => ~executed[i - 1].gone

\* C32: the replay of a click first makes the click by selector; the click at
\* the recorded coordinates is made if and only if the click by selector
\* failed; when that one fails too, the event is reported and skipped, and
\* the replay goes on with the next event.
C32_ClickFallback ==
    replayInput = "recording" =>
       \A i \in DOMAIN executed :
          LET e == executed[i]
          IN  recording[e.index].type = "click" =>
                 /\ e.calls[1] = "page.click"
                 /\ e.selector => e.calls = <<"page.click">>
                 /\ ~e.selector => e.calls = <<"page.click", "page.mouse.click">>
                 /\ ~e.ok =>
                       /\ \E j \in DOMAIN reported : reported[j] = i
                       /\ i < Len(recording) => (replayPc = "events" \/ Len(executed) > i)

\* a click whose two attempts failed, followed by an event that was executed
C32_Witness ==
    /\ replayInput = "recording"
    /\ replayPc = "done"
    /\ Len(executed) = 2
    /\ recording[1].type = "click"
    /\ executed[1].calls = <<"page.click", "page.mouse.click">>
    /\ ~executed[1].ok
    /\ ~executed[1].gone
    /\ executed[2].ok

\* C33: the replay and the execution of a script are sequential: the events
\* are executed one at a time in the order of the list, and the wait for an
\* event begins only when the event before it has completed or failed, so
\* no two events are in flight at once.
C33_Sequential ==
    \A i \in DOMAIN executed :
       /\ executed[i].index = i
       /\ executed[i].before <= executed[i].at
       /\ executed[i].at <= executed[i].end
       /\ i > 1 => executed[i - 1].end <= executed[i].before

\* the second event was due while the first was still being executed, and
\* started when the first had ended
C33_Witness ==
    /\ replayInput = "recording"
    /\ Len(executed) = 2
    /\ executed[1].end = 300
    /\ recording[2].timestamp \div speed < 300
    /\ executed[2].at = 300

\* C34: _pause_app is called once, when every event of the recording has
\* been attempted, whether or not some of them failed; it leaves no timer or
\* interval pending whose handle is in the range it goes through; when it
\* fails, the error is caught and the replay ends as it does otherwise.
C34_PauseOnceAfterAll ==
    replayInput = "recording" =>
       /\ Len(paused) <= 1
       /\ (replayPc = "paused") = (paused # <<>>)
       /\ paused # <<>> =>
             /\ paused[1].after = Len(recording)
             /\ \A i \in DOMAIN recording : \E j \in DOMAIN executed : executed[j].index = i
             /\ replayError = "none"
             /\ ~paused[1].failed =>
                   /\ \A h \in handles : h \notin 1..(PauseRange - 1)
                   /\ \A h \in paused[1].before : h >= PauseRange => h \in handles

\* the page was paused after a replay in which an event failed, with two
\* handles pending in the range and one beyond it
C34_Witness ==
    /\ replayInput = "recording"
    /\ replayPc = "paused"
    /\ reported # <<>>
    /\ ~paused[1].failed
    /\ paused[1].before = {1, 3, PauseRange}
    /\ handles = {PauseRange}

(***************************************************************************)
(* The debounced listeners while a recording runs, up to the final read.   *)
(***************************************************************************)
\* the scroll and mousemove events dispatched in one recording
BurstLen == 2

\* the time followed in one document, in quanta
BurstQuanta == 13

BurstScroll == PageRuns /\ Len(raw) < BurstLen /\ OnScroll

BurstMouseMove == PageRuns /\ Len(raw) < BurstLen /\ OnMouseMove

BurstTimer == PageRuns /\ TimerFires

BurstClock == PageRuns /\ clock < BurstQuanta * Quantum /\ ClockTick

\* a reload of a document in which every event so far was dispatched
BurstReload == (\A i \in DOMAIN raw : raw[i].t >= 0) /\ clock > 0 /\ PageReload

NextBursts ==
    \/ StartRecording
    \/ BurstScroll
    \/ BurstMouseMove
    \/ BurstTimer
    \/ BurstClock
    \/ BurstReload
    \/ PageClose
    \/ Interrupt
    \/ FinalRead

SpecBursts == InitIdle /\ [][NextBursts]_vars

FinalOf(type) == SelectSeq(events, LAMBDA e : e.type = type)

\* C35: after a final read that succeeded, the list of events has, one for
\* one and in order, an entry for every burst of scroll events whose 100 ms
\* of quiet had passed before the read, stamped at the end of those 100 ms,
\* and no entry for a burst whose quiet had not yet passed; the same for
\* mousemove with 200 ms.
C35_CompletedBurstsInFinalList ==
    (pc = "done" /\ lastOp = "final") =>
       \A type \in {"scroll", "mousemove"} :
          LET L == Lasts(type)
              E == FinalOf(type)
          IN  /\ Len(E) <= Len(L)
              /\ \A k \in 1..Len(L) :
                    /\ L[k].t + Window(type) < clock => k <= Len(E)
                    /\ L[k].t + Window(type) > clock => k > Len(E)
              /\ \A k \in 1..Len(E) : E[k].timestamp = L[k].t + Window(type)

\* C36: while a recording runs, the list of events that the recorder holds
\* never shrinks: what a read returns starts with what the read before it
\* returned, also when the page was reloaded or navigated in between; and
\* the times of the events held are not negative and never decrease along
\* the list.
C36_HostListNeverShrinks ==
    [][ /\ /\ Len(lastRead) <= Len(lastRead')
           /\ \A i \in DOMAIN lastRead : lastRead'[i] = lastRead[i]
        /\ \A i \in DOMAIN events' :
              /\ events'[i].timestamp >= 0
              /\ i > 1 => events'[i - 1].timestamp <= events'[i].timestamp ]_vars

\* C37: in a recording that captures snapshots, last_stage is -1, as at the
\* start, or the id of a state of which a snapshot is held; and no snapshot
\* is held under a negative id.
C37_LastStageHasSnapshot ==
    capture_snapshots =>
       /\ last_stage = -1 \/ last_stage \in DOMAIN snapshots
       /\ \A id \in DOMAIN snapshots : id >= 0

\* two states were captured and the last run of _check_stage_change found
\* the page in no state
C37_Witness ==
    /\ capture_snapshots
    /\ Cardinality(DOMAIN snapshots) = 2
    /\ last_stage \in DOMAIN snapshots
    /\ hostRun.ran
    /\ hostRun.detected = -1

InitScripted ==
    /\ schema \in { s \in RecSchemas : \A i \in 1..(Len(s) - 1) : s[i].id < s[i + 1].id }
    /\ InitPage
    /\ currentTrackedState = 0
    /\ prevTracked = 0
    /\ lastOp = "init"
    /\ STATES_SCHEMA_loaded \in BOOLEAN
    /\ capture_snapshots = TRUE
    /\ InitLoop
    /\ recording \in ReplayRecordings
    /\ cvPos = 1
    /\ actions = <<>>
    /\ last_time = 0
    /\ script = NoScript
    /\ InitPageScript
    /\ InitTools

\* the page assigns its variable stage while the actions are executed
ScriptedPageSetVariable ==
    /\ replayer = "SessionRecorder"
    /\ replayPc = "actions"
    /\ \E x \in RecChoices("stage") :
          /\ x # win["stage"]
          /\ win' = [win EXCEPT !["stage"] = x]
    /\ lastOp' = "page"
    /\ UNCHANGED <<schema, nested, dom, currentTrackedState, prevTracked>>
    /\ UNCHANGED recVars
    /\ UNCHANGED convVars
    /\ UNCHANGED pageVars
    /\ UNCHANGED fileVars
    /\ UNCHANGED toolVars

NextScripted ==
    \/ ConvertEvent
    \/ WriteScript
    \/ record_with_script
    \/ execute_action
    \/ ScriptedPageSetVariable

SpecScripted == InitScripted /\ [][NextScripted]_vars

\* C39: a recording driven by a script, with snapshot capture enabled, holds
\* at its end a snapshot whenever the page is in a state with an id of 0 or
\* more that the recorder's detection finds (and so was in one while the
\* actions were executed).
C39_ScriptedRunCaptures ==
    (/\ replayer = "SessionRecorder"
     /\ replayPc = "done"
     /\ capture_snapshots
     /\ script.actions # <<>>
     /\ CurrentStateOf(schema, STATES_SCHEMA_loaded, win, dom, TRUE).v >= 0)
       => DOMAIN snapshots # {}

====
